---- MODULE Spec2Model ----
(***************************************************************************)
(* A model of the Band-Hopper navigation core: the band classifier, the    *)
(* exit-width calculator and the refinery scorer, together with the        *)
(* RefineryFinder component that drives the scorer.                        *)
(*                                                                         *)
(* Number representation.  The program computes in IEEE doubles; the model *)
(* computes in exact integers with fixed units:                            *)
(*   - band and route distances: km (integers in the source);              *)
(*   - polar r and cartesian x, y, distanceGm: hundredths of a Gm;         *)
(*   - angles: hundredths of a degree;                                     *)
(*   - yield percentages: percent (integers in the source);                *)
(*   - cargo weights and distanceWeight: tenths (0.30 is 3);               *)
(*   - primary/secondaryValueImpact: hundredths of aUEC (yield * value);   *)
(*   - combinedValueImpact: thousandths of aUEC;                           *)
(*   - distanceScore: twentieths (0.85 is 17);                             *)
(*   - score: an exact fraction [num, den].                                *)
(* An optional value (T | null, T | undefined) is the empty sequence when  *)
(* absent and the one-element sequence <<v>> when present.                 *)
(***************************************************************************)
EXTENDS Integers, Sequences, FiniteSets, TLC

VARIABLES
    pc,                 \* "idle" between calls, "done" after a call returned
    op,                 \* name of the function called last
    args,               \* the arguments of that call
    ret,                \* what the call returned
    selectedMaterial,   \* RefineryFinder state: primary material id, "" = none
    secondaryMaterial,  \* RefineryFinder state: secondary material id, "" = none
    selectionMode,      \* RefineryFinder state: "closest" | "best-yield" | "optimal"
    distanceWeight,     \* RefineryFinder state: slider, tenths
    primaryMix,         \* RefineryFinder state: cargo-mix slider, tenths
    userPosition,       \* RefineryFinder memo: <<>> (null) or <<polar coordinate>>
    selectedAlternativeId,  \* RefineryFinder state: <<>> (null) or <<refinery id>>
    store,              \* the arrays shared between calls: the static tables
                        \* and the list the caller of a call holds
    sync,               \* session sync: the auth client's session, the shared
                        \* cookie, the listeners and the events in flight
    planner,            \* RoutePlanner state, with the route state lifted to App
    localStorage        \* the stored preferences item: <<>> (absent) or <<item>>

vars == <<pc, op, args, ret, selectedMaterial, secondaryMaterial, selectionMode,
          distanceWeight, primaryMix, userPosition, selectedAlternativeId,
          store, sync, planner, localStorage>>

uiVars == <<sync, planner, localStorage>>

appVars == <<store, sync, planner, localStorage>>

callVars == <<pc, op, args, ret>>

finderVars == <<selectedMaterial, secondaryMaterial, selectionMode,
                distanceWeight, primaryMix, userPosition, selectedAlternativeId>>

(***************************************************************************)
(* Generic helpers                                                         *)
(***************************************************************************)

\* null / undefined
Nothing == <<>>

Some(v) == <<v>>

IsSome(o) == Len(o) = 1

Abs(n) == IF n < 0 THEN -n ELSE n

Min2(a, b) == IF a <= b THEN a ELSE b

SeqRange(s) == {s[i] : i \in 1..Len(s)}

\* An array built once: the sequence with all its elements evaluated
Array(f) == f \o <<>>

\* Array.prototype.filter
RECURSIVE FilterSeq(_, _)
FilterSeq(s, keep) ==
    IF s = <<>> THEN <<>>
    ELSE IF Head(s) \in keep THEN <<Head(s)>> \o FilterSeq(Tail(s), keep)
    ELSE FilterSeq(Tail(s), keep)

\* Mutant of SortRank: equal keys are placed in reverse input order.
SortRankUnstable(keys, i) ==
    1 + Cardinality({j \in 1..Len(keys) :
                        keys[j] < keys[i] \/ (keys[j] = keys[i] /\ j > i)})

\* Array.prototype.sort with a comparator (a, b) => key(a) - key(b): the sort
\* is stable, so element i lands after every element with a smaller key and
\* after every earlier element with an equal key.
SortRank(keys, i) ==
    1 + Cardinality({j \in 1..Len(keys) :
                        keys[j] < keys[i] \/ (keys[j] = keys[i] /\ j < i)})

\* The permutation a stable ascending sort by keys applies: position p of the
\* result holds element SortedIdx(keys)[p] of the input.
SortedIdx(keys) ==
    LET k == Array(keys)
        rank == Array([i \in 1..Len(k) |-> SortRank(k, i)])
    IN  Array([p \in 1..Len(k) |-> CHOOSE i \in 1..Len(k) : rank[i] = p])

SortAscBy(s, keys) ==
    LET idx == SortedIdx(keys)
        elems == Array(s)
    IN  Array([p \in 1..Len(elems) |-> elems[idx[p]]])

SortDescBy(s, keys) == SortAscBy(s, [i \in 1..Len(keys) |-> -keys[i]])

(***************************************************************************)
(* Bands (types/bands.ts)                                                  *)
(***************************************************************************)

Band(id, inner, outer, peak) ==
    [id |-> id, innerDistance |-> inner, outerDistance |-> outer,
     peakDensityDistance |-> peak]

BANDS == <<
    Band(1, 19673000, 19715000, 19702000),
    Band(2, 19815000, 19914000, 19887000),
    Band(3, 19914000, 19995000, 19995000),
    Band(4, 20071000, 20179000, 20188000),
    Band(5, 20230000, 20407000, 20320000),
    Band(6, 20407000, 20540000, 20471000),
    Band(7, 20540000, 20881000, 20962000),
    Band(8, 20881000, 21046000, 20968000),
    Band(9, 21046000, 21132000, 21062000),
    Band(10, 21132000, 21298000, 21207000) >>

HALO_INNER_EDGE == 19673000

HALO_OUTER_EDGE == 21298000

\* Array.prototype.find: the first element satisfying the predicate
RECURSIVE FindBandFrom(_, _)
FindBandFrom(i, distanceToStanton) ==
    IF i > Len(BANDS) THEN Nothing
    ELSE IF /\ distanceToStanton >= BANDS[i].innerDistance
            /\ distanceToStanton <= BANDS[i].outerDistance
         THEN Some(BANDS[i])
         ELSE FindBandFrom(i + 1, distanceToStanton)

\* Mutant of findBandByDistance: the scan runs from the last band down, so a
\* shared boundary goes to the higher band.
RECURSIVE FindBandDown(_, _)
FindBandDown(i, distanceToStanton) ==
    IF i < 1 THEN Nothing
    ELSE IF /\ distanceToStanton >= BANDS[i].innerDistance
            /\ distanceToStanton <= BANDS[i].outerDistance
         THEN Some(BANDS[i])
         ELSE FindBandDown(i - 1, distanceToStanton)

findBandByDistanceLast(distanceToStanton) ==
    FindBandDown(Len(BANDS), distanceToStanton)

findBandByDistance(distanceToStanton) == FindBandFrom(1, distanceToStanton)

\* Mutant of isInHalo: the outer edge is excluded.
isInHaloOpen(distanceToStanton) ==
    distanceToStanton >= HALO_INNER_EDGE /\ distanceToStanton < HALO_OUTER_EDGE

isInHalo(distanceToStanton) ==
    distanceToStanton >= HALO_INNER_EDGE /\ distanceToStanton <= HALO_OUTER_EDGE

\* The loop of findClosestBand from BANDS[i] on; the comparison keeps (TRUE) or
\* replaces (FALSE) the band found so far when the distances are equal
RECURSIVE ClosestBandFrom(_, _, _, _, _)
ClosestBandFrom(i, distanceToStanton, closestBand, closestDistance, keepOnTie) ==
    IF i > Len(BANDS) THEN closestBand
    ELSE LET distance == Abs(distanceToStanton - BANDS[i].peakDensityDistance)
         IN  IF distance < closestDistance \/ (~keepOnTie /\ distance = closestDistance)
             THEN ClosestBandFrom(i + 1, distanceToStanton, BANDS[i], distance,
                                  keepOnTie)
             ELSE ClosestBandFrom(i + 1, distanceToStanton, closestBand,
                                  closestDistance, keepOnTie)

\* Mutant of findClosestBand: the comparison is distance <= closestDistance.
findClosestBandLast(distanceToStanton) ==
    ClosestBandFrom(1, distanceToStanton, BANDS[1],
                    Abs(distanceToStanton - BANDS[1].peakDensityDistance), FALSE)

findClosestBand(distanceToStanton) ==
    ClosestBandFrom(1, distanceToStanton, BANDS[1],
                    Abs(distanceToStanton - BANDS[1].peakDensityDistance), TRUE)

(***************************************************************************)
(* Exit widths (types/routes.ts)                                           *)
(***************************************************************************)

BandExit(bandId, fromStanton, toDestination, fromStart) ==
    [bandId |-> bandId, distanceFromStanton |-> fromStanton,
     distanceToDestination |-> toDestination, distanceFromStart |-> fromStart]

\* Mutant of ExitWithWidth: the gaps are signed differences, without Math.abs.
ExitWithWidthSigned(sorted, index) ==
    LET exit == sorted[index]
        gapToPrevious ==
            IF index > 1
            THEN Some(exit.distanceToDestination
                     - sorted[index - 1].distanceToDestination)
            ELSE Nothing
        gapToNext ==
            IF index < Len(sorted)
            THEN Some(sorted[index + 1].distanceToDestination
                     - exit.distanceToDestination)
            ELSE Nothing
        exitWidth ==
            IF IsSome(gapToPrevious) /\ IsSome(gapToNext)
            THEN Min2(gapToPrevious[1], gapToNext[1])
            ELSE IF IsSome(gapToPrevious) THEN gapToPrevious[1]
            ELSE IF IsSome(gapToNext) THEN gapToNext[1]
            ELSE 0
    IN  [bandId |-> exit.bandId,
         distanceFromStanton |-> exit.distanceFromStanton,
         distanceToDestination |-> exit.distanceToDestination,
         distanceFromStart |-> exit.distanceFromStart,
         gapToPreviousBand |-> gapToPrevious,
         gapToNextBand |-> gapToNext,
         exitWidth |-> exitWidth]

\* One element of the map() of calculateExitWidths
ExitWithWidth(sorted, index) ==
    LET exit == sorted[index]
        gapToPrevious ==
            IF index > 1
            THEN Some(Abs(exit.distanceToDestination
                          - sorted[index - 1].distanceToDestination))
            ELSE Nothing
        gapToNext ==
            IF index < Len(sorted)
            THEN Some(Abs(sorted[index + 1].distanceToDestination
                          - exit.distanceToDestination))
            ELSE Nothing
        exitWidth ==
            IF IsSome(gapToPrevious) /\ IsSome(gapToNext)
            THEN Min2(gapToPrevious[1], gapToNext[1])
            ELSE IF IsSome(gapToPrevious) THEN gapToPrevious[1]
            ELSE IF IsSome(gapToNext) THEN gapToNext[1]
            ELSE 0
    IN  [bandId |-> exit.bandId,
         distanceFromStanton |-> exit.distanceFromStanton,
         distanceToDestination |-> exit.distanceToDestination,
         distanceFromStart |-> exit.distanceFromStart,
         gapToPreviousBand |-> gapToPrevious,
         gapToNextBand |-> gapToNext,
         exitWidth |-> exitWidth]

\* Mutant of calculateExitWidths: the input is not sorted by bandId first.
calculateExitWidthsUnsorted(bandExits) ==
    [index \in 1..Len(bandExits) |-> ExitWithWidth(bandExits, index)]

calculateExitWidths(bandExits) ==
    LET sorted == SortAscBy(bandExits,
                            [i \in 1..Len(bandExits) |-> bandExits[i].bandId])
    IN  [index \in 1..Len(sorted) |-> ExitWithWidth(sorted, index)]

(***************************************************************************)
(* Routes (types/routes.ts)                                                *)
(***************************************************************************)

PreCalculatedRoute(id, startId, destinationId, bandExits) ==
    [id |-> id, startId |-> startId, destinationId |-> destinationId,
     crossesHalo |-> TRUE, bandExits |-> bandExits]

ROUTES == <<
    PreCalculatedRoute("arc-l1_to_cru-l4", "arc-l1", "cru-l4",
        <<
         BandExit(1, 19702000, 12744803, 8256962),
         BandExit(2, 19887000, 13157847, 7843918),
         BandExit(3, 19995000, 13510150, 7491615),
         BandExit(4, 20179000, 13934165, 7067600),
         BandExit(5, 20320000, 14292609, 6709156),
         BandExit(6, 20540000, 14637246, 6364519),
         BandExit(7, 20750000, 15058764, 5943001),
         BandExit(8, 20968000, 15524706, 5477059),
         BandExit(9, 21062000, 15938061, 5063704),
         BandExit(10, 21207000, 16188952, 4812813) >>),
    PreCalculatedRoute("arc-l1_to_crusader", "arc-l1", "crusader",
        <<
         BandExit(1, 19702000, 32477533, 9173467),
         BandExit(2, 19887000, 32661536, 8989464),
         BandExit(3, 19995000, 32824869, 8826131),
         BandExit(4, 20179000, 33028998, 8622002),
         BandExit(5, 20320000, 33207787, 8443213),
         BandExit(6, 20540000, 33384898, 8266102),
         BandExit(7, 20750000, 33608233, 8042767),
         BandExit(8, 20968000, 33863390, 7787610),
         BandExit(9, 21062000, 34096746, 7554254),
         BandExit(10, 21207000, 34241481, 7409519) >>),
    PreCalculatedRoute("arc-l1_to_cru-l5", "arc-l1", "cru-l5",
        <<
         BandExit(1, 19702000, 38842891, 6325109),
         BandExit(2, 19887000, 38997920, 6170080),
         BandExit(3, 19995000, 39135946, 6032054),
         BandExit(4, 20179000, 39308978, 5859022),
         BandExit(5, 20320000, 39461005, 5706995),
         BandExit(6, 20540000, 39612032, 5555968),
         BandExit(7, 20750000, 39803066, 5364934),
         BandExit(8, 20968000, 40022104, 5145896),
         BandExit(9, 21062000, 40223137, 4944863),
         BandExit(10, 21207000, 40348158, 4819842) >>),
    PreCalculatedRoute("arc-l1_to_hurston", "arc-l1", "hurston",
        <<
         BandExit(1, 19702000, 12680614, 7630386),
         BandExit(2, 19887000, 12881847, 7429153),
         BandExit(3, 19995000, 13060115, 7250885),
         BandExit(4, 20179000, 13282453, 7028547),
         BandExit(5, 20320000, 13476792, 6834208),
         BandExit(6, 20540000, 13668952, 6642048),
         BandExit(7, 20750000, 13910778, 6400222),
         BandExit(8, 20968000, 14186429, 6124571),
         BandExit(9, 21062000, 14437964, 5873036),
         BandExit(10, 21207000, 14593715, 5717285) >>),
    PreCalculatedRoute("arc-l1_to_cru-l3", "arc-l1", "cru-l3",
        <<
         BandExit(1, 19702000, 10989473, 11722527),
         BandExit(2, 19887000, 11446936, 11265064),
         BandExit(3, 19995000, 11832950, 10879050),
         BandExit(4, 20179000, 12293296, 10418704),
         BandExit(5, 20320000, 12679383, 10032617),
         BandExit(6, 20540000, 13048324, 9663676),
         BandExit(7, 20750000, 13496942, 9215058),
         BandExit(8, 20968000, 13989945, 8722055),
         BandExit(9, 21062000, 14425115, 8286885),
         BandExit(10, 21207000, 14688359, 8023641) >>),
    PreCalculatedRoute("arc-l2_to_cru-l4", "arc-l2", "cru-l4",
        <<
         BandExit(1, 19702000, 8282791, 20717209),
         BandExit(2, 19887000, 8819520, 20180480),
         BandExit(3, 19995000, 9261296, 19738704),
         BandExit(4, 20179000, 9384727, 19615273),
         BandExit(5, 20320000, 10213088, 18786912),
         BandExit(6, 20540000, 10619534, 18380466),
         BandExit(7, 20750000, 11108954, 17891046),
         BandExit(8, 20968000, 11641854, 17358146),
         BandExit(9, 21062000, 12109387, 16890613),
         BandExit(10, 21207000, 12389524, 16610476) >>),
    PreCalculatedRoute("arc-l2_to_crusader", "arc-l2", "crusader",
        <<
         BandExit(1, 19702000, 29835087, 11164913),
         BandExit(2, 19887000, 30020198, 10979802),
         BandExit(3, 19995000, 30183988, 10816012),
         BandExit(4, 20179000, 30416953, 10583047),
         BandExit(5, 20320000, 32090899, 8909101),
         BandExit(6, 20540000, 32273873, 8726127),
         BandExit(7, 20750000, 32503681, 8496319),
         BandExit(8, 20968000, 32766911, 8233089),
         BandExit(9, 21062000, 33005926, 7994074),
         BandExit(10, 21207000, 33155143, 7844857) >>),
    PreCalculatedRoute("arc-l2_to_hur-l5", "arc-l2", "hur-l5",
        <<
         BandExit(1, 19702000, 7043371, 16956629),
         BandExit(2, 19887000, 7201232, 16798768),
         BandExit(3, 19995000, 7341201, 16658799),
         BandExit(4, 20179000, 7536360, 16463640),
         BandExit(5, 20320000, 7671815, 16328185),
         BandExit(6, 20540000, 7825770, 16174230),
         BandExit(7, 20750000, 8019481, 15980519),
         BandExit(8, 20968000, 8242037, 15757963),
         BandExit(9, 21062000, 8446266, 15553734),
         BandExit(10, 21207000, 8573334, 15426666) >>),
    PreCalculatedRoute("arc-l2_to_hurston", "arc-l2", "hurston",
        <<
         BandExit(1, 19702000, 11591569, 13408431),
         BandExit(2, 19887000, 11789853, 13210147),
         BandExit(3, 19995000, 11964198, 13035802),
         BandExit(4, 20179000, 12205207, 12794793),
         BandExit(5, 20320000, 12373993, 12626007),
         BandExit(6, 20540000, 12562456, 12437544),
         BandExit(7, 20750000, 12801159, 12198841),
         BandExit(8, 20968000, 13072050, 11927950),
         BandExit(9, 21062000, 13320467, 11679533),
         BandExit(10, 21207000, 13473594, 11526406) >>),
    PreCalculatedRoute("crusader_to_arc-l1", "crusader", "arc-l1",
        <<
         BandExit(1, 19702000, 7173358, 34477642),
         BandExit(2, 19887000, 6989355, 34661645),
         BandExit(3, 19995000, 6826022, 34824978),
         BandExit(4, 20179000, 6621894, 35029106),
         BandExit(5, 20320000, 6443104, 35207896),
         BandExit(6, 20540000, 6265993, 35385007),
         BandExit(7, 20750000, 6042658, 35608342),
         BandExit(8, 20968000, 5787501, 35863499),
         BandExit(9, 21062000, 5554145, 36096855),
         BandExit(10, 21207000, 5409410, 36241590) >>),
    PreCalculatedRoute("crusader_to_arc-l2", "crusader", "arc-l2",
        <<
         BandExit(1, 19702000, 13643681, 27356319),
         BandExit(2, 19887000, 13458570, 27541430),
         BandExit(3, 19995000, 13294910, 27705090),
         BandExit(4, 20179000, 13061778, 27938222),
         BandExit(5, 20320000, 12898644, 28101356),
         BandExit(6, 20540000, 12715670, 28284330),
         BandExit(7, 20750000, 12485862, 28514138),
         BandExit(8, 20968000, 12222632, 28777368),
         BandExit(9, 21062000, 11983618, 29016382),
         BandExit(10, 21207000, 11834401, 29165599) >>),
    PreCalculatedRoute("cru-l3_to_arc-l1", "cru-l3", "arc-l1",
        <<
         BandExit(1, 19702000, 11722536, 10989464),
         BandExit(2, 19887000, 11265073, 11446927),
         BandExit(3, 19995000, 10879059, 11832941),
         BandExit(4, 20179000, 10418713, 12293287),
         BandExit(5, 20320000, 10032626, 12679374),
         BandExit(6, 20540000, 9663684, 13048316),
         BandExit(7, 20750000, 9215066, 13496934),
         BandExit(8, 20968000, 8722063, 13989937),
         BandExit(9, 21062000, 8286894, 14425106),
         BandExit(10, 21207000, 8023649, 14688351) >>),
    PreCalculatedRoute("cru-l4_to_arc-l1", "cru-l4", "arc-l1",
        <<
         BandExit(1, 19702000, 11256961, 9743039),
         BandExit(2, 19887000, 10843917, 10156083),
         BandExit(3, 19995000, 10491614, 10508386),
         BandExit(4, 20179000, 10067599, 10932401),
         BandExit(5, 20320000, 9709155, 11290845),
         BandExit(6, 20540000, 9364518, 11635482),
         BandExit(7, 20750000, 8943000, 12057000),
         BandExit(8, 20968000, 8477058, 12522942),
         BandExit(9, 21062000, 8063703, 12936297),
         BandExit(10, 21207000, 7812812, 13187188) >>),
    PreCalculatedRoute("cru-l4_to_arc-l2", "cru-l4", "arc-l2",
        <<
         BandExit(1, 19702000, 20117293, 8882707),
         BandExit(2, 19887000, 19581064, 9418936),
         BandExit(3, 19995000, 19139288, 9860712),
         BandExit(4, 20179000, 18565856, 10434144),
         BandExit(5, 20320000, 18187496, 10812504),
         BandExit(6, 20540000, 17781049, 11218951),
         BandExit(7, 20750000, 17291629, 11708371),
         BandExit(8, 20968000, 16758730, 12241270),
         BandExit(9, 21062000, 16291196, 12708804),
         BandExit(10, 21207000, 16011059, 12988941) >>),
    PreCalculatedRoute("cru-l5_to_arc-l1", "cru-l5", "arc-l1",
        <<
         BandExit(1, 19702000, 6324828, 38843172),
         BandExit(2, 19887000, 6169798, 38998202),
         BandExit(3, 19995000, 6031773, 39136227),
         BandExit(4, 20179000, 5858741, 39309259),
         BandExit(5, 20320000, 5706713, 39461287),
         BandExit(6, 20540000, 5555686, 39612314),
         BandExit(7, 20750000, 5364653, 39803347),
         BandExit(8, 20968000, 5145615, 40022385),
         BandExit(9, 21062000, 4944581, 40223419),
         BandExit(10, 21207000, 4819561, 40348439) >>),
    PreCalculatedRoute("hurston_to_arc-l1", "hurston", "arc-l1",
        <<
         BandExit(1, 19702000, 7630180, 12680820),
         BandExit(2, 19887000, 7428947, 12882053),
         BandExit(3, 19995000, 7250679, 13060321),
         BandExit(4, 20179000, 7028341, 13282659),
         BandExit(5, 20320000, 6834002, 13476998),
         BandExit(6, 20540000, 6641842, 13669158),
         BandExit(7, 20750000, 6400015, 13910985),
         BandExit(8, 20968000, 6124364, 14186636),
         BandExit(9, 21062000, 5872830, 14438170),
         BandExit(10, 21207000, 5717079, 14593921) >>),
    PreCalculatedRoute("hurston_to_arc-l2", "hurston", "arc-l2",
        <<
         BandExit(1, 19702000, 13932455, 11067545),
         BandExit(2, 19887000, 13734171, 11265829),
         BandExit(3, 19995000, 13559263, 11440737),
         BandExit(4, 20179000, 13318817, 11681183),
         BandExit(5, 20320000, 13150031, 11849969),
         BandExit(6, 20540000, 12961568, 12038432),
         BandExit(7, 20750000, 12722865, 12277135),
         BandExit(8, 20968000, 12451974, 12548026),
         BandExit(9, 21062000, 12203557, 12796443),
         BandExit(10, 21207000, 12050430, 12949570) >>),
    PreCalculatedRoute("hur-l5_to_arc-l2", "hur-l5", "arc-l2",
        <<
         BandExit(1, 19702000, 12240389, 11759611),
         BandExit(2, 19887000, 12082529, 11917471),
         BandExit(3, 19995000, 11942560, 12057440),
         BandExit(4, 20179000, 11747400, 12252600),
         BandExit(5, 20320000, 11611945, 12388055),
         BandExit(6, 20540000, 11457990, 12542010),
         BandExit(7, 20750000, 11264279, 12735721),
         BandExit(8, 20968000, 11041724, 12958276),
         BandExit(9, 21062000, 10837495, 13162505),
         BandExit(10, 21207000, 10710426, 13289574) >>) >>

\* ROUTES.find(r => r.startId === startId && r.destinationId === destinationId)
\* || null
FindRouteFrom(i, startId, destinationId) ==
    LET matching == {k \in i..Len(ROUTES) :
                        /\ ROUTES[k].startId = startId
                        /\ ROUTES[k].destinationId = destinationId}
    IN  IF matching = {} THEN Nothing
        ELSE Some(ROUTES[CHOOSE k \in matching : \A m \in matching : k <= m])

getRoute(startId, destinationId) == FindRouteFrom(1, startId, destinationId)

getRoutesToLocation(destinationId) ==
    FilterSeq(ROUTES, {r \in SeqRange(ROUTES) : r.destinationId = destinationId})

getRoutesFromLocation(startId) ==
    FilterSeq(ROUTES, {r \in SeqRange(ROUTES) : r.startId = startId})

\* exits.find(be => be.bandId === bandId), <<>> when there is none
FindExit(exits, bandId) ==
    LET matching == {k \in 1..Len(exits) : exits[k].bandId = bandId}
    IN  IF matching = {} THEN Nothing
        ELSE Some(exits[CHOOSE k \in matching : \A m \in matching : k <= m])

\* The entry of one route, <<>> (null) when the route has no exit for the band
DestinationEntry(route, bandId) ==
    LET withWidths == Array(calculateExitWidths(route.bandExits))
        bandExit == FindExit(withWidths, bandId)
    IN  IF bandExit = Nothing THEN Nothing
        ELSE Some([destinationId |-> route.destinationId,
                   exitDistance |-> bandExit[1].distanceToDestination,
                   exitWidth |-> bandExit[1].exitWidth,
                   gapToPreviousBand |-> bandExit[1].gapToPreviousBand,
                   gapToNextBand |-> bandExit[1].gapToNextBand])

\* Mutant of getDestinationsByBandWidth: the comparator is a - b.
getDestinationsByBandWidthAscending(startId, bandId) ==
    LET routes == getRoutesFromLocation(startId)
        mapped == Array([i \in 1..Len(routes) |-> DestinationEntry(routes[i], bandId)])
        kept == FilterSeq(mapped, {e \in SeqRange(mapped) : e # Nothing})
        results == Array([i \in 1..Len(kept) |-> kept[i][1]])
    IN  SortAscBy(results, [i \in 1..Len(results) |-> results[i].exitWidth])

getDestinationsByBandWidth(startId, bandId) ==
    LET routes == getRoutesFromLocation(startId)
        mapped == Array([i \in 1..Len(routes) |-> DestinationEntry(routes[i], bandId)])
        kept == FilterSeq(mapped, {e \in SeqRange(mapped) : e # Nothing})
        results == Array([i \in 1..Len(kept) |-> kept[i][1]])
    IN  SortDescBy(results, [i \in 1..Len(results) |-> results[i].exitWidth])

(***************************************************************************)
(* Route analysis (utils/calculator.ts)                                    *)
(***************************************************************************)

\* relativeDensity of the bands, in hundredths, by band id
RELATIVE_DENSITY == <<1, 24, 35, 23, 100, 33, 36, 26, 25, 33>>

\* BANDS.find(b => b.id === bandId), <<>> when there is none
FindBandById(bandId) ==
    LET matching == {k \in 1..Len(BANDS) : BANDS[k].id = bandId}
    IN  IF matching = {} THEN Nothing
        ELSE Some(BANDS[CHOOSE k \in matching : \A m \in matching : k <= m])

\* The value of a call that ended in a throw
Thrown == <<"Error", "Band not found">>

IsThrown(o) == Len(o) = 2

\* <<>> (null) without a route; throws when an exit names no band of BANDS
getRouteWithBandInfo(startId, destinationId) ==
    LET route == getRoute(startId, destinationId)
    IN  IF route = Nothing THEN Nothing
        ELSE IF \E i \in 1..Len(route[1].bandExits) :
                    FindBandById(route[1].bandExits[i].bandId) = Nothing
        THEN Thrown
        ELSE Some([route |-> route[1],
                   bandDetails |->
                       Array([i \in 1..Len(route[1].bandExits) |->
                           [band |-> FindBandById(route[1].bandExits[i].bandId)[1],
                            exit |-> route[1].bandExits[i]]])])

\* Mutant of RecommendedBands: no slice(0, 3).
RecommendedBandsAll(bandDetails) ==
    LET sorted == SortDescBy(bandDetails,
                             [i \in 1..Len(bandDetails) |->
                                 RELATIVE_DENSITY[bandDetails[i].band.id]])
    IN  Array([i \in 1..Len(sorted) |-> sorted[i].band])

\* The three bands of highest density among the route's bands
RecommendedBands(bandDetails) ==
    LET sorted == SortDescBy(bandDetails,
                             [i \in 1..Len(bandDetails) |->
                                 RELATIVE_DENSITY[bandDetails[i].band.id]])
        top == SubSeq(sorted, 1, Min2(3, Len(sorted)))
    IN  Array([i \in 1..Len(top) |-> top[i].band])

\* Mutant of analyzeRoute: an unknown route gives an empty analysis, not null.
analyzeRouteNoNull(startId, destinationId, ship) ==
    LET routeInfo == getRouteWithBandInfo(startId, destinationId)
    IN  IF routeInfo = Nothing
        THEN Some([route |-> Nothing, bandExits |-> <<>>, hasTravelTimes |-> FALSE,
                   recommendedBands |-> <<>>])
        ELSE IF IsThrown(routeInfo) THEN Thrown
        ELSE Some([route |-> routeInfo[1].route,
                   bandExits |-> routeInfo[1].bandDetails,
                   hasTravelTimes |-> IsSome(ship),
                   recommendedBands |-> RecommendedBands(routeInfo[1].bandDetails)])

\* The travel times a ship adds to the analysis are kept as the flag
\* hasTravelTimes only.
analyzeRoute(startId, destinationId, ship) ==
    LET routeInfo == getRouteWithBandInfo(startId, destinationId)
    IN  IF routeInfo = Nothing THEN Nothing
        ELSE IF IsThrown(routeInfo) THEN Thrown
        ELSE Some([route |-> routeInfo[1].route,
                   bandExits |-> routeInfo[1].bandDetails,
                   hasTravelTimes |-> IsSome(ship),
                   recommendedBands |-> RecommendedBands(routeInfo[1].bandDetails)])

\* The formatted* fields are renderings of the three distances
getExitDistances(startId, destinationId, bandId) ==
    LET route == getRoute(startId, destinationId)
        bandExit == IF route = Nothing THEN Nothing
                    ELSE FindExit(route[1].bandExits, bandId)
        band == FindBandById(bandId)
    IN  IF route = Nothing THEN Nothing
        ELSE IF bandExit = Nothing THEN Nothing
        ELSE IF band = Nothing THEN Nothing
        ELSE Some([bandId |-> bandId,
                   stantonMarkerDistance |-> bandExit[1].distanceFromStanton,
                   destinationDistance |-> bandExit[1].distanceToDestination,
                   distanceFromStart |-> bandExit[1].distanceFromStart])

NEARBY_LIMIT == 500000

\* Mutant of NearbyBands: the list is left in BANDS order.
NearbyBandsUnsorted(distanceFromStanton) ==
    LET mapped ==
            Array([i \in 1..Len(BANDS) |->
                [band |-> BANDS[i],
                 distance |-> Abs(distanceFromStanton - BANDS[i].peakDensityDistance),
                 direction |->
                     IF distanceFromStanton - BANDS[i].peakDensityDistance > 0
                     THEN "closer" ELSE "further"]])
    IN  FilterSeq(mapped, {item \in SeqRange(mapped) : item.distance <= NEARBY_LIMIT})

\* BANDS.map(...).filter(item => item.distance <= 500_000).sort(by distance)
NearbyBands(distanceFromStanton) ==
    LET mapped ==
            Array([i \in 1..Len(BANDS) |->
                [band |-> BANDS[i],
                 distance |-> Abs(distanceFromStanton - BANDS[i].peakDensityDistance),
                 direction |->
                     IF distanceFromStanton - BANDS[i].peakDensityDistance > 0
                     THEN "closer" ELSE "further"]])
        kept == FilterSeq(mapped,
                          {item \in SeqRange(mapped) : item.distance <= NEARBY_LIMIT})
    IN  SortAscBy(kept, [i \in 1..Len(kept) |-> kept[i].distance])

PEAK_TOLERANCE == 10000

\* Which sentence positionDescription is, and the band it names
PositionDescription(distanceFromStanton, inHalo, currentBand, closestBand) ==
    IF ~inHalo
    THEN IF distanceFromStanton < HALO_INNER_EDGE
         THEN <<"Inside the halo zone", 1>>
         ELSE <<"Outside the halo zone", 10>>
    ELSE IF IsSome(currentBand)
    THEN IF Abs(distanceFromStanton - currentBand[1].peakDensityDistance)
                < PEAK_TOLERANCE
         THEN <<"At peak density", currentBand[1].id>>
         ELSE IF distanceFromStanton < currentBand[1].peakDensityDistance
         THEN <<"inner edge", currentBand[1].id>>
         ELSE <<"outer edge", currentBand[1].id>>
    ELSE <<"Between bands", closestBand.id>>

\* Mutant of analyzePosition: the closest band stands in for the current band.
analyzePositionClosestAsCurrent(distanceFromStanton) ==
    LET closestBand == findClosestBand(distanceFromStanton)
    IN  [distanceFromStanton |-> distanceFromStanton,
         isInHalo |-> isInHalo(distanceFromStanton),
         currentBand |-> Some(closestBand),
         closestBand |-> closestBand,
         distanceToClosestBand |->
             Abs(distanceFromStanton - closestBand.peakDensityDistance),
         positionDescription |->
             PositionDescription(distanceFromStanton, isInHalo(distanceFromStanton),
                                 Some(closestBand), closestBand),
         nearbyBands |-> NearbyBands(distanceFromStanton)]

analyzePosition(distanceFromStanton) ==
    LET inHalo == isInHalo(distanceFromStanton)
        currentBand == findBandByDistance(distanceFromStanton)
        closestBand == findClosestBand(distanceFromStanton)
    IN  [distanceFromStanton |-> distanceFromStanton,
         isInHalo |-> inHalo,
         currentBand |-> currentBand,
         closestBand |-> closestBand,
         distanceToClosestBand |->
             Abs(distanceFromStanton - closestBand.peakDensityDistance),
         positionDescription |->
             PositionDescription(distanceFromStanton, inHalo, currentBand,
                                 closestBand),
         nearbyBands |-> NearbyBands(distanceFromStanton)]

(***************************************************************************)
(* Polar coordinates (types/polarCoordinates.ts)                           *)
(***************************************************************************)

Polar(r, theta) == [r |-> r, theta |-> theta]

LOCATION_COORDINATES ==
    "arccorp" :> Polar(2891, (-5000))
    @@ "arc-l1" :> Polar(2602, (-5000))
    @@ "arc-l2" :> Polar(3181, (-5000))
    @@ "arc-l3" :> Polar(2892, 15000)
    @@ "arc-l4" :> Polar(2891, 999)
    @@ "arc-l5" :> Polar(2892, (-11000))
    @@ "crusader" :> Polar(1914, (-17200))
    @@ "cru-l1" :> Polar(1723, (-17200))
    @@ "cru-l3" :> Polar(1914, 800)
    @@ "cru-l4" :> Polar(1914, (-11200))
    @@ "cru-l5" :> Polar(1914, 12798)
    @@ "hurston" :> Polar(1285, 0)
    @@ "hur-l1" :> Polar(1156, 0)
    @@ "hur-l2" :> Polar(1413, 0)
    @@ "hur-l4" :> Polar(1284, 5998)
    @@ "hur-l5" :> Polar(1285, (-6000))
    @@ "microtech" :> Polar(4344, 5886)
    @@ "mic-l1" :> Polar(3909, 5886)
    @@ "mic-l2" :> Polar(4779, 5886)
    @@ "mic-l5" :> Polar(4345, (-113))
    @@ "pyro-gateway" :> Polar(2830, (-8325))
    @@ "terra-gateway" :> Polar(5157, (-588))
    @@ "nyx-gateway" :> Polar(6955, 15935)

\* Math.cos and Math.sin of an angle given in hundredths of a degree, in
\* units of 1/10000, for the angles the model uses.
TrigTable ==
    (-18000) :> [cos |-> (-10000), sin |-> 0]
    @@ (-17200) :> [cos |-> (-9903), sin |-> (-1392)]
    @@ (-11200) :> [cos |-> (-3746), sin |-> (-9272)]
    @@ (-11000) :> [cos |-> (-3420), sin |-> (-9397)]
    @@ (-8700) :> [cos |-> 523, sin |-> (-9986)]
    @@ (-8325) :> [cos |-> 1175, sin |-> (-9931)]
    @@ (-6000) :> [cos |-> 5000, sin |-> (-8660)]
    @@ (-5000) :> [cos |-> 6428, sin |-> (-7660)]
    @@ (-588) :> [cos |-> 9947, sin |-> (-1024)]
    @@ (-113) :> [cos |-> 9998, sin |-> (-197)]
    @@ 0 :> [cos |-> 10000, sin |-> 0]
    @@ 800 :> [cos |-> 9903, sin |-> 1392]
    @@ 999 :> [cos |-> 9848, sin |-> 1735]
    @@ 1800 :> [cos |-> 9511, sin |-> 3090]
    @@ 5886 :> [cos |-> 5171, sin |-> 8559]
    @@ 5998 :> [cos |-> 5003, sin |-> 8659]
    @@ 12798 :> [cos |-> (-6154), sin |-> 7882]
    @@ 15000 :> [cos |-> (-8660), sin |-> 5000]
    @@ 15750 :> [cos |-> (-9239), sin |-> 3827]
    @@ 15935 :> [cos |-> (-9358), sin |-> 3527]
    @@ 18000 :> [cos |-> (-10000), sin |-> 0]

\* a / b rounded to the nearest integer (b > 0)
RoundDiv(a, b) == (2 * a + b) \div (2 * b)

\* Math.cos of 0, 1, ..., 90 degrees, in units of 1/10000
COS_BY_DEGREE == <<
    10000, 9998, 9994, 9986, 9976, 9962, 9945, 9925, 9903, 9877,
    9848, 9816, 9781, 9744, 9703, 9659, 9613, 9563, 9511, 9455,
    9397, 9336, 9272, 9205, 9135, 9063, 8988, 8910, 8829, 8746,
    8660, 8572, 8480, 8387, 8290, 8192, 8090, 7986, 7880, 7771,
    7660, 7547, 7431, 7314, 7193, 7071, 6947, 6820, 6691, 6561,
    6428, 6293, 6157, 6018, 5878, 5736, 5592, 5446, 5299, 5150,
    5000, 4848, 4695, 4540, 4384, 4226, 4067, 3907, 3746, 3584,
    3420, 3256, 3090, 2924, 2756, 2588, 2419, 2250, 2079, 1908,
    1736, 1564, 1392, 1219, 1045, 872, 698, 523, 349, 175,
    0 >>

\* An angle in whole degrees brought into -179..180
WrapDegrees(d) == ((d + 179) % 360) - 179

\* Math.cos of a whole number of degrees, in units of 1/10000
CosDegrees(d) ==
    LET w == Abs(WrapDegrees(d))
    IN  IF w <= 90 THEN COS_BY_DEGREE[w + 1] ELSE -COS_BY_DEGREE[180 - w + 1]

\* Math.sin of a whole number of degrees: sin(d) = cos(d - 90)
SinDegrees(d) == CosDegrees(d - 90)

\* The whole number of degrees nearest to an angle in hundredths of a degree
NearestDegree(theta) == (theta + 50) \div 100

\* Math.cos of any angle in hundredths of a degree, in units of 1/10000:
\* the value at the nearest whole degree d, carried over the rest e of the
\* angle by cos(d + e) = cos(d) - e * sin(d), with e in radians
\* (pi / 18000 = 1745 / 10000000 per hundredth of a degree)
CosNear(theta) ==
    LET d == NearestDegree(theta)
        e == theta - 100 * d
    IN  CosDegrees(d) - RoundDiv(e * SinDegrees(d) * 1745, 10000000)

SinNear(theta) ==
    LET d == NearestDegree(theta)
        e == theta - 100 * d
    IN  SinDegrees(d) + RoundDiv(e * CosDegrees(d) * 1745, 10000000)

\* degreesToRadians followed by Math.cos / Math.sin
Cos(theta) == TrigTable[theta].cos

Sin(theta) == TrigTable[theta].sin

\* A cartesian coordinate. A float that rounds to 0 here is 0, -0 or a tiny
\* value of either sign, and Math.atan2 tells them apart: xNegative and
\* yNegative keep the sign of x and y.
Cartesian(x, y, xNegative, yNegative) == [x |-> x, y |-> y, xNegative |-> xNegative, yNegative |-> yNegative]

\* The sign of Math.cos(thetaRad) for theta within [-180, 180] degrees:
\* Math.cos is never exactly 0, it is tiny and positive at -90 and 90
CosIsNegative(theta) == Cos(theta) < 0

\* The sign of Math.sin(thetaRad) for theta within [-180, 180] degrees:
\* Math.sin(0) is 0, Math.sin(Math.PI) is tiny and positive and
\* Math.sin(-Math.PI) tiny and negative
SinIsNegative(theta) == IF Sin(theta) # 0 THEN Sin(theta) < 0 ELSE theta < 0

\* polar.r >= 0, so x and y take the signs of the cosine and the sine, also
\* when polar.r is 0 (0 * negative is -0)
polarToCartesian(polar) ==
    Cartesian(RoundDiv(polar.r * Cos(polar.theta), 10000),
              RoundDiv(polar.r * Sin(polar.theta), 10000),
              CosIsNegative(polar.theta), SinIsNegative(polar.theta))

\* Math.sqrt, rounded down: the largest s in lo..hi with s * s <= n
RECURSIVE SqrtBetween(_, _, _)
SqrtBetween(n, lo, hi) ==
    IF lo >= hi THEN lo
    ELSE LET mid == (lo + hi + 1) \div 2
         IN  IF mid * mid <= n THEN SqrtBetween(n, mid, hi)
             ELSE SqrtBetween(n, lo, mid - 1)

Sqrt(n) == SqrtBetween(n, 0, 46340)

\* calculateDistance comparing the radii only
calculateDistanceRadial(a, b) == Abs(b.r - a.r)

calculateDistance(a, b) ==
    LET aCart == polarToCartesian(a)
        bCart == polarToCartesian(b)
        dx == bCart.x - aCart.x
        dy == bCart.y - aCart.y
    IN  Sqrt(dx * dx + dy * dy)

\* A whole degree within half a degree of the direction of the vector (x, y):
\* the vector points along it (dot > 0) and off it by no more than half a
\* degree (|cross| / dot <= tan(0.5 degrees), about 1 / 114)
NearestDirection(y, x) ==
    CHOOSE d \in -179..180 :
        LET dot == x * CosDegrees(d) + y * SinDegrees(d)
            cross == y * CosDegrees(d) - x * SinDegrees(d)
        IN  dot > 0 /\ Abs(cross) <= dot \div 113

\* Math.atan2(y, x) * (180 / Math.PI), in hundredths of a degree within
\* [-18000, 18000]. With y zero or tiny and x negative or -0 the result is
\* 180 degrees with the sign of y; atan2(0, 0) is 0. Otherwise it is a
\* whole degree d next to the direction plus the small angle left over,
\* which is (cross / dot) radians of 57.3 degrees each.
Atan2Degrees(y, x, yNegative, xNegative) ==
    IF y = 0 /\ (x < 0 \/ (x = 0 /\ xNegative))
    THEN IF yNegative THEN -18000 ELSE 18000
    ELSE IF x = 0 /\ y = 0 THEN 0
    ELSE LET d == NearestDirection(y, x)
             dot == x * CosDegrees(d) + y * SinDegrees(d)
             cross == y * CosDegrees(d) - x * SinDegrees(d)
             theta == 100 * d + RoundDiv(cross * 573, dot \div 10)
         IN  IF theta > 18000 THEN theta - 36000 ELSE theta

cartesianToPolar(cart) ==
    Polar(Sqrt(cart.x * cart.x + cart.y * cart.y),
          Atan2Degrees(cart.y, cart.x, cart.yNegative, cart.xNegative))

\* cartesianToPolar of a point whose coordinates are NaN: r and theta are NaN
NaNPolar == [nan |-> TRUE]

IsNaNPolar(polar) == "nan" \in DOMAIN polar

\* The vector cart scaled to length targetRadius and converted to polar:
\* scale = targetRadius / Math.sqrt(x * x + y * y). For the zero vector the
\* scale is Infinity (or NaN) and 0 * scale is NaN.
ScaledToRadius(cart, targetRadius) ==
    LET len == Sqrt(cart.x * cart.x + cart.y * cart.y)
    IN  IF len = 0 THEN NaNPolar
        ELSE cartesianToPolar(Cartesian(RoundDiv(cart.x * targetRadius, len),
                                        RoundDiv(cart.y * targetRadius, len),
                                        cart.xNegative, cart.yNegative))

\* The root the travel direction selects, taking the larger of two
\* non-negative roots
PickRootLargest(t1, t2) ==
    IF t1 >= 0 /\ t2 >= 0 THEN Some(IF t1 >= t2 THEN t1 ELSE t2)
    ELSE IF t1 >= 0 THEN Some(t1)
    ELSE IF t2 >= 0 THEN Some(t2)
    ELSE Nothing

\* if (t1 >= 0 && t2 >= 0) t = Math.min(t1, t2); else if (t1 >= 0) t = t1;
\* else if (t2 >= 0) t = t2; else: no root in the direction of travel
PickRoot(t1, t2) ==
    IF t1 >= 0 /\ t2 >= 0 THEN Some(Min2(t1, t2))
    ELSE IF t1 >= 0 THEN Some(t1)
    ELSE IF t2 >= 0 THEN Some(t2)
    ELSE Nothing

\* (dx / length, dy / length) for length = Math.sqrt(dx * dx + dy * dy) > 0,
\* in units of 1/10000. With m the smaller of |dx|, |dy| over the larger,
\* the larger component is 1 / sqrt(1 + m * m) and the smaller m times that,
\* which keeps four digits whatever the length.
UnitVector(dx, dy) ==
    LET big == IF Abs(dx) >= Abs(dy) THEN Abs(dx) ELSE Abs(dy)
        small == IF Abs(dx) >= Abs(dy) THEN Abs(dy) ELSE Abs(dx)
        m == RoundDiv(small * 10000, big)
        h == Sqrt(100000000 + m * m)
        ubig == RoundDiv(100000000, h)
        usmall == RoundDiv(m * 10000, h)
        sx == IF dx < 0 THEN -1 ELSE 1
        sy == IF dy < 0 THEN -1 ELSE 1
    IN  IF Abs(dx) >= Abs(dy) THEN [x |-> sx * ubig, y |-> sy * usmall]
        ELSE [x |-> sx * usmall, y |-> sy * ubig]

\* interpolatePositionOnRoute sending a zero discriminant to the midpoint
\* fallback
interpolatePositionOnRouteTangentMisses(start, destination, targetRadius) ==
    LET startCart == polarToCartesian(start)
        destCart == polarToCartesian(destination)
        dx == destCart.x - startCart.x
        dy == destCart.y - startCart.y
        length == Sqrt(dx * dx + dy * dy)
    IN  IF length = 0 THEN ScaledToRadius(destCart, targetRadius)
        ELSE
        LET ux == UnitVector(dx, dy).x
            uy == UnitVector(dx, dy).y
            b == 2 * RoundDiv(startCart.x * ux + startCart.y * uy, 10000)
            c == startCart.x * startCart.x + startCart.y * startCart.y
                     - targetRadius * targetRadius
            discriminant == b * b - 4 * c
        IN  IF discriminant <= 0
            THEN LET midX == RoundDiv(startCart.x + destCart.x, 2)
                     midY == RoundDiv(startCart.y + destCart.y, 2)
                 IN  ScaledToRadius(Cartesian(midX, midY, midX < 0, midY < 0),
                                    targetRadius)
            ELSE
            LET t1 == RoundDiv(-b - Sqrt(discriminant), 2)
                t2 == RoundDiv(-b + Sqrt(discriminant), 2)
                t == PickRoot(t1, t2)
            IN  IF IsSome(t)
                THEN LET intersectX == startCart.x + RoundDiv(t[1] * ux, 10000)
                         intersectY == startCart.y + RoundDiv(t[1] * uy, 10000)
                     IN  cartesianToPolar(Cartesian(intersectX, intersectY,
                                                    intersectX < 0, intersectY < 0))
                ELSE ScaledToRadius(destCart, targetRadius)

\* Lengths are in hundredths of a Gm and the unit direction (ux, uy) in
\* units of 1/10000. A computed coordinate that is 0 here is taken as +0. A zero route length makes ux, uy, b, the discriminant
\* and both roots NaN; every comparison with NaN is false, which leaves
\* the last branch, the destination scaled to targetRadius.
interpolatePositionOnRoute(start, destination, targetRadius) ==
    LET startCart == polarToCartesian(start)
        destCart == polarToCartesian(destination)
        dx == destCart.x - startCart.x
        dy == destCart.y - startCart.y
        length == Sqrt(dx * dx + dy * dy)
    IN  IF length = 0 THEN ScaledToRadius(destCart, targetRadius)
        ELSE
        LET ux == UnitVector(dx, dy).x
            uy == UnitVector(dx, dy).y
            b == 2 * RoundDiv(startCart.x * ux + startCart.y * uy, 10000)
            c == startCart.x * startCart.x + startCart.y * startCart.y
                     - targetRadius * targetRadius
            discriminant == b * b - 4 * c
        IN  IF discriminant < 0
            THEN LET midX == RoundDiv(startCart.x + destCart.x, 2)
                     midY == RoundDiv(startCart.y + destCart.y, 2)
                 IN  ScaledToRadius(Cartesian(midX, midY, midX < 0, midY < 0),
                                    targetRadius)
            ELSE
            LET t1 == RoundDiv(-b - Sqrt(discriminant), 2)
                t2 == RoundDiv(-b + Sqrt(discriminant), 2)
                t == PickRoot(t1, t2)
            IN  IF IsSome(t)
                THEN LET intersectX == startCart.x + RoundDiv(t[1] * ux, 10000)
                         intersectY == startCart.y + RoundDiv(t[1] * uy, 10000)
                     IN  cartesianToPolar(Cartesian(intersectX, intersectY,
                                                    intersectX < 0, intersectY < 0))
                ELSE ScaledToRadius(destCart, targetRadius)

getLocationCoordinates(locationId) ==
    IF locationId \in DOMAIN LOCATION_COORDINATES
    THEN Some(LOCATION_COORDINATES[locationId])
    ELSE Nothing

(***************************************************************************)
(* Locations (types/locations.ts)                                          *)
(***************************************************************************)

LOCATIONS == <<
    "arc-l1", "arc-l2", "arc-l3", "arc-l4", "arc-l5",
    "cru-l1", "cru-l4", "cru-l5", "hur-l1", "hur-l2",
    "hur-l3", "hur-l4", "hur-l5", "mic-l1", "mic-l2",
    "hurston", "crusader", "arccorp", "microtech" >>

\* The locations of the shipped table that the revision of locations.ts at
\* hand does not list: the refinery stations added with the gateways.
LOCATIONS_ADDED == <<"mic-l5", "pyro-gateway", "terra-gateway", "nyx-gateway">>

\* LOCATIONS.find(loc => loc.id === id) || null; a location is known by its id
getLocationById(id) ==
    IF id \in SeqRange(LOCATIONS) \cup SeqRange(LOCATIONS_ADDED)
    THEN Some(id)
    ELSE Nothing

(***************************************************************************)
(* Materials (types/materials.ts)                                          *)
(***************************************************************************)

Material(id, baseValue) == [id |-> id, baseValue |-> baseValue]

MATERIALS == <<
    Material("quantanium", 94378), Material("riccite", 109957),
    Material("savrilium", 101208), Material("stileron", 105473),
    Material("bexalite", 20440), Material("lindinium", 24292),
    Material("taranite", 22417), Material("agricium", 4664),
    Material("beryl", 5644), Material("borase", 7871),
    Material("gold", 8376), Material("hephaestanite", 4465),
    Material("laranite", 6078), Material("aluminium", 1960),
    Material("copper", 2041), Material("corundum", 2046),
    Material("ice", 2910), Material("iron", 2316),
    Material("quartz", 2189), Material("silicon", 1394),
    Material("tin", 1871), Material("titanium", 2569),
    Material("torite", 2417), Material("tungsten", 4050) >>

RECURSIVE FindMaterialFrom(_, _)
FindMaterialFrom(i, id) ==
    IF i > Len(MATERIALS) THEN Nothing
    ELSE IF MATERIALS[i].id = id THEN Some(MATERIALS[i])
    ELSE FindMaterialFrom(i + 1, id)

getMaterialById(id) == FindMaterialFrom(1, id)

\* material?.baseValue || 0
BaseValueOrZero(material) == IF IsSome(material) THEN material[1].baseValue ELSE 0

(***************************************************************************)
(* Refineries (types/refineries.ts)                                        *)
(***************************************************************************)

Refinery(id, locationId, yieldBonuses) ==
    [id |-> id, locationId |-> locationId, yieldBonuses |-> yieldBonuses]

REFINERIES == <<
    Refinery("arc-l1-refinery", "arc-l1",
             "quantanium" :> 3 @@ "taranite" :> (-6) @@ "laranite" :> (-2)
             @@ "beryl" :> 7 @@ "hephaestanite" :> (-4) @@ "titanium" :> 5
             @@ "iron" :> 1 @@ "quartz" :> 11 @@ "corundum" :> (-4)
             @@ "aluminium" :> (-5)),
    Refinery("arc-l2-refinery", "arc-l2",
             "quantanium" :> 3 @@ "bexalite" :> 2 @@ "gold" :> 7
             @@ "borase" :> 2 @@ "hephaestanite" :> (-8) @@ "tungsten" :> (-6)
             @@ "titanium" :> 3 @@ "corundum" :> (-3) @@ "copper" :> 6),
    Refinery("arc-l4-refinery", "arc-l4",
             "taranite" :> 5 @@ "gold" :> (-4) @@ "beryl" :> (-4)
             @@ "agricium" :> (-4) @@ "hephaestanite" :> (-5)
             @@ "tungsten" :> (-5) @@ "titanium" :> (-2) @@ "quartz" :> (-2)
             @@ "corundum" :> (-9) @@ "copper" :> (-4) @@ "aluminium" :> (-3)),
    Refinery("cru-l1-refinery", "cru-l1",
             "bexalite" :> (-6) @@ "gold" :> (-6) @@ "laranite" :> (-8)
             @@ "beryl" :> 7 @@ "hephaestanite" :> (-2) @@ "tungsten" :> 2
             @@ "titanium" :> (-1) @@ "iron" :> 2 @@ "corundum" :> 7),
    Refinery("hur-l1-refinery", "hur-l1",
             "quantanium" :> 2 @@ "bexalite" :> (-2) @@ "gold" :> (-3)
             @@ "borase" :> 1 @@ "laranite" :> 2 @@ "agricium" :> (-8)
             @@ "tungsten" :> 4 @@ "iron" :> (-5) @@ "corundum" :> (-5)
             @@ "copper" :> (-5) @@ "aluminium" :> (-4)),
    Refinery("hur-l2-refinery", "hur-l2",
             "quantanium" :> 2 @@ "taranite" :> (-3) @@ "gold" :> 1
             @@ "laranite" :> (-1) @@ "beryl" :> 1 @@ "agricium" :> (-2)
             @@ "corundum" :> 1 @@ "copper" :> (-3)),
    Refinery("mic-l1-refinery", "mic-l1",
             "gold" :> 1 @@ "laranite" :> 2 @@ "beryl" :> (-6)
             @@ "agricium" :> 8 @@ "quartz" :> (-3) @@ "corundum" :> 2
             @@ "copper" :> 4 @@ "aluminium" :> 7),
    Refinery("mic-l2-refinery", "mic-l2",
             "quantanium" :> 1 @@ "bexalite" :> 9 @@ "gold" :> 9
             @@ "borase" :> (-3) @@ "laranite" :> (-1) @@ "beryl" :> (-8)
             @@ "tungsten" :> 9 @@ "titanium" :> 6 @@ "quartz" :> (-5)
             @@ "corundum" :> 6 @@ "copper" :> 2),
    Refinery("mic-l5-refinery", "mic-l5",
             "savrilium" :> 6 @@ "lindinium" :> 7 @@ "bexalite" :> 12
             @@ "borase" :> 9 @@ "hephaestanite" :> 8 @@ "titanium" :> 13
             @@ "torite" :> 8 @@ "iron" :> 8 @@ "copper" :> 9),
    Refinery("pyro-gateway-refinery", "pyro-gateway",
             "bexalite" :> (-6) @@ "gold" :> (-6) @@ "laranite" :> (-8)
             @@ "beryl" :> 7 @@ "hephaestanite" :> (-2) @@ "tungsten" :> 2
             @@ "titanium" :> (-1) @@ "iron" :> 2 @@ "corundum" :> 7),
    Refinery("terra-gateway-refinery", "terra-gateway",
             "gold" :> 1 @@ "laranite" :> 2 @@ "beryl" :> (-6)
             @@ "agricium" :> 8 @@ "quartz" :> (-3) @@ "corundum" :> 2
             @@ "copper" :> 4 @@ "aluminium" :> 7),
    Refinery("nyx-gateway-refinery", "nyx-gateway",
             "quantanium" :> 3 @@ "taranite" :> (-6) @@ "bexalite" :> (-2)
             @@ "gold" :> (-3) @@ "borase" :> 1 @@ "laranite" :> (-2)
             @@ "beryl" :> 7 @@ "agricium" :> (-8) @@ "hephaestanite" :> (-4)
             @@ "tungsten" :> 4 @@ "titanium" :> 5 @@ "iron" :> 1
             @@ "quartz" :> 11 @@ "corundum" :> (-4) @@ "copper" :> (-5)
             @@ "aluminium" :> (-5)) >>

\* Mutant of getYieldBonus: an unlisted material counts as a 1% bonus.
getYieldBonusNoDefault(refinery, materialId) ==
    IF materialId \in DOMAIN refinery.yieldBonuses
    THEN refinery.yieldBonuses[materialId]
    ELSE 1

\* refinery.yieldBonuses[materialId] || 0
getYieldBonus(refinery, materialId) ==
    IF materialId \in DOMAIN refinery.yieldBonuses
    THEN refinery.yieldBonuses[materialId]
    ELSE 0

PRIMARY_CARGO_WEIGHT == 3

SECONDARY_CARGO_WEIGHT == 7

DEFAULT_DISTANCE_WEIGHT == 5

\* param = default
Default(o, d) == IF IsSome(o) THEN o[1] ELSE d

\* The refineries of a table whose location is known, in table order
\* (if (!location) continue)
WithLocation(refineries) ==
    FilterSeq(refineries,
              {r \in SeqRange(refineries) : IsSome(getLocationById(r.locationId))})

\* ... and whose coordinates are known too (if (!refineryCoords) continue)
WithCoordinates(refineries) ==
    FilterSeq(WithLocation(refineries),
              {r \in SeqRange(refineries) :
                  IsSome(getLocationCoordinates(r.locationId))})

\* Mutant of findBestRefineryByYield: the comparator is a - b.
findBestRefineryByYieldAscending(materialId) ==
    LET cands == WithLocation(REFINERIES)
        results == Array([i \in 1..Len(cands) |->
                       [refinery |-> cands[i],
                        location |-> getLocationById(cands[i].locationId)[1],
                        yieldPercent |-> getYieldBonus(cands[i], materialId)]])
    IN  SortAscBy(results, [i \in 1..Len(results) |-> results[i].yieldPercent])

findBestRefineryByYield(materialId) ==
    LET cands == WithLocation(REFINERIES)
        results == Array([i \in 1..Len(cands) |->
                       [refinery |-> cands[i],
                        location |-> getLocationById(cands[i].locationId)[1],
                        yieldPercent |-> getYieldBonus(cands[i], materialId)]])
    IN  SortDescBy(results, [i \in 1..Len(results) |-> results[i].yieldPercent])

\* The list both position-based functions build in their loop over the table
RefineryDistances(refineries, userPositionArg) ==
    LET cands == WithCoordinates(refineries)
    IN  Array([i \in 1..Len(cands) |->
            [refinery |-> cands[i],
             location |-> getLocationById(cands[i].locationId)[1],
             distanceGm |->
                 calculateDistance(userPositionArg,
                                   getLocationCoordinates(cands[i].locationId)[1])]])

\* Mutant of findClosestRefineryByPosition: the list is returned as built.
findClosestRefineryUnsorted(userPositionArg) ==
    RefineryDistances(REFINERIES, userPositionArg)

findClosestRefineryByPosition(userPositionArg) ==
    LET results == RefineryDistances(REFINERIES, userPositionArg)
    IN  SortAscBy(results, [i \in 1..Len(results) |-> results[i].distanceGm])

\* Mutant of getDistanceScore: the step table is read in the wrong direction.
getDistanceScoreInverted(distanceGm) ==
    IF distanceGm < 1500 THEN 3
    ELSE IF distanceGm < 3000 THEN 7
    ELSE IF distanceGm < 4500 THEN 12
    ELSE IF distanceGm < 6000 THEN 17
    ELSE 20

getDistanceScore(distanceGm) ==
    IF distanceGm < 1500 THEN 20
    ELSE IF distanceGm < 3000 THEN 17
    ELSE IF distanceGm < 4500 THEN 12
    ELSE IF distanceGm < 6000 THEN 7
    ELSE 3

\* Mutant of CargoWeights: the 50/50 split of an earlier revision.
CargoWeightsEven(secondaryMaterialId, primaryCargoWeight, secondaryCargoWeight) ==
    IF secondaryMaterialId # ""
    THEN [primary |-> 5, secondary |-> 5]
    ELSE [primary |-> 10, secondary |-> 0]

\* Passed cargo weights, or 100% primary if no secondary material
CargoWeights(secondaryMaterialId, primaryCargoWeight, secondaryCargoWeight) ==
    IF secondaryMaterialId # ""
    THEN [primary |-> primaryCargoWeight, secondary |-> secondaryCargoWeight]
    ELSE [primary |-> 10, secondary |-> 0]

\* secondaryMaterialId ? (refinery.yieldBonuses[secondaryMaterialId] || 0) : 0
SecondaryYield(refinery, secondaryMaterialId) ==
    IF secondaryMaterialId # "" THEN getYieldBonus(refinery, secondaryMaterialId)
    ELSE 0

\* First pass: the running maximum and minimum of the combined impact,
\* starting from -Infinity and Infinity (Nothing).
RECURSIVE MaxImpactFrom(_, _, _)
MaxImpactFrom(impacts, i, maxValueImpact) ==
    IF i > Len(impacts) THEN maxValueImpact
    ELSE IF maxValueImpact = Nothing \/ impacts[i] > maxValueImpact[1]
         THEN MaxImpactFrom(impacts, i + 1, Some(impacts[i]))
         ELSE MaxImpactFrom(impacts, i + 1, maxValueImpact)

RECURSIVE MinImpactFrom(_, _, _)
MinImpactFrom(impacts, i, minValueImpact) ==
    IF i > Len(impacts) THEN minValueImpact
    ELSE IF minValueImpact = Nothing \/ impacts[i] < minValueImpact[1]
         THEN MinImpactFrom(impacts, i + 1, Some(impacts[i]))
         ELSE MinImpactFrom(impacts, i + 1, minValueImpact)

\* Mutant of ValueRange: no guard against a zero range.
ValueRangeUnguarded(maxValueImpact, minValueImpact) ==
    IF maxValueImpact = Nothing THEN 1
    ELSE maxValueImpact[1] - minValueImpact[1]

\* maxValueImpact - minValueImpact || 1 (with no candidate the value is unused)
ValueRange(maxValueImpact, minValueImpact) ==
    IF maxValueImpact = Nothing THEN 1
    ELSE IF maxValueImpact[1] - minValueImpact[1] # 0
         THEN maxValueImpact[1] - minValueImpact[1]
         ELSE 1

\* Mutant of DistanceScoreOf: the relative scoring of an earlier revision,
\* 1 - distanceGm / maxDistance over the candidates of the run.
DistanceScoreRelative(distances, distanceGm) ==
    LET maxDistance ==
            CHOOSE d \in {distances[i].distanceGm : i \in 1..Len(distances)} \cup {0} :
                \A i \in 1..Len(distances) : distances[i].distanceGm <= d
    IN  IF maxDistance > 0 THEN 20 - (20 * distanceGm) \div maxDistance ELSE 20

\* The distance score of one entry of distances: absolute thresholds
DistanceScoreOf(distances, distanceGm) == getDistanceScore(distanceGm)

\* normalizedValue = (combinedValueImpact - minValueImpact) / valueRange
\* score = normalizedValue * (1 - distanceWeight) + distanceScore * distanceWeight
OptimalScore(combinedValueImpact, minValueImpact, valueRange, distanceScore, distanceWeightArg) ==
    [num |-> (combinedValueImpact - minValueImpact) * (10 - distanceWeightArg) * 20
             + distanceScore * distanceWeightArg * valueRange,
     den |-> valueRange * 200]

\* findOptimalRefinery reading the refinery table `refineries`
OptimalRefineryOver(refineries, userPositionArg, materialId, distanceWeightArg, secondaryMaterialId, primaryCargoWeight, secondaryCargoWeight) ==
    LET primaryBaseValue == BaseValueOrZero(getMaterialById(materialId))
        secondaryBaseValue ==
            BaseValueOrZero(IF secondaryMaterialId # ""
                            THEN getMaterialById(secondaryMaterialId)
                            ELSE Nothing)
        weights == CargoWeights(secondaryMaterialId, primaryCargoWeight,
                                secondaryCargoWeight)
        distances == RefineryDistances(refineries, userPositionArg)
        impacts ==
            Array([i \in 1..Len(distances) |->
                getYieldBonus(distances[i].refinery, materialId)
                    * primaryBaseValue * weights.primary
                + SecondaryYield(distances[i].refinery, secondaryMaterialId)
                    * secondaryBaseValue * weights.secondary])
        maxValueImpact == MaxImpactFrom(impacts, 1, Nothing)
        minValueImpact == MinImpactFrom(impacts, 1, Nothing)
        valueRange == ValueRange(maxValueImpact, minValueImpact)
        Entry(d) ==
            LET yieldPercent == getYieldBonus(d.refinery, materialId)
                secondaryYieldPercent == SecondaryYield(d.refinery, secondaryMaterialId)
                primaryValueImpact == yieldPercent * primaryBaseValue
                secondaryValueImpact == secondaryYieldPercent * secondaryBaseValue
                combinedValueImpact ==
                    primaryValueImpact * weights.primary
                    + secondaryValueImpact * weights.secondary
            IN  [refinery |-> d.refinery,
                 location |-> d.location,
                 score |-> OptimalScore(combinedValueImpact, minValueImpact[1],
                                        valueRange,
                                        DistanceScoreOf(distances, d.distanceGm),
                                        distanceWeightArg),
                 distanceGm |-> d.distanceGm,
                 yieldPercent |-> yieldPercent,
                 secondaryYieldPercent |-> secondaryYieldPercent,
                 combinedYieldPercent |-> yieldPercent + secondaryYieldPercent,
                 primaryValueImpact |-> primaryValueImpact,
                 secondaryValueImpact |-> secondaryValueImpact,
                 combinedValueImpact |-> combinedValueImpact]
        results == Array([i \in 1..Len(distances) |-> Entry(distances[i])])
    IN  SortDescBy(results, [i \in 1..Len(results) |-> results[i].score.num])

\* findOptimalRefinery with its parameter defaults; an omitted parameter is
\* Nothing, an omitted secondaryMaterialId is "".
findOptimalRefinery(userPositionArg, materialId, distanceWeightArg, secondaryMaterialId, primaryCargoWeight, secondaryCargoWeight) ==
    OptimalRefineryOver(REFINERIES, userPositionArg, materialId,
                        Default(distanceWeightArg, DEFAULT_DISTANCE_WEIGHT),
                        secondaryMaterialId,
                        Default(primaryCargoWeight, PRIMARY_CARGO_WEIGHT),
                        Default(secondaryCargoWeight, SECONDARY_CARGO_WEIGHT))

(***************************************************************************)
(* Call harness: a pure function is called from "idle" with arguments      *)
(* drawn from a bounded set, the state records the call and its result,    *)
(* and Return goes back to "idle".                                         *)
(***************************************************************************)

\* RefineryFinder: default cargo mix, 30% primary, 70% secondary (in tenths)
DEFAULT_PRIMARY_MIX == 3

\* The module-level arrays as loaded, and no list held by a caller
\* Before initSessionSync: no session, no cookie, nothing registered
InitialSync == [phase |-> "start", session |-> Nothing, cookie |-> Nothing, restoreToken |-> Nothing, listening |-> FALSE, watching |-> FALSE, events |-> <<>>, visibility |-> "idle"]

\* useState initial values of App (route state) and RoutePlanner
InitialPlanner == [startId |-> "", destinationId |-> "", selectedBandId |-> Nothing, mode |-> "band", selectedDestBandId |-> Nothing, destTableCollapsed |-> FALSE, bandModeCollapsed |-> FALSE, bandSelectorCollapsed |-> FALSE]

InitialStore == [BANDS |-> BANDS, ROUTES |-> ROUTES, REFINERIES |-> REFINERIES, bandExits |-> <<>>]

Init ==
    /\ pc = "idle"
    /\ op = "none"
    /\ args = Nothing
    /\ ret = Nothing
    /\ selectedMaterial = ""
    /\ secondaryMaterial = ""
    /\ selectionMode = "optimal"
    /\ distanceWeight = DEFAULT_DISTANCE_WEIGHT
    /\ primaryMix = DEFAULT_PRIMARY_MIX
    /\ userPosition = Nothing
    /\ selectedAlternativeId = Nothing
    /\ store = InitialStore
    /\ sync = InitialSync
    /\ planner = InitialPlanner
    /\ localStorage = Nothing

\* A call that leaves the shared arrays as st
CalledWithStore(name, a, r, st) ==
    /\ pc' = "done"
    /\ op' = name
    /\ args' = a
    /\ ret' = r
    /\ store' = st
    /\ UNCHANGED <<finderVars, uiVars>>

Called(name, a, r) == CalledWithStore(name, a, r, store)

\* The caller drops the result and the list it passed
Return ==
    /\ pc = "done"
    /\ pc' = "idle"
    /\ op' = "none"
    /\ args' = Nothing
    /\ ret' = Nothing
    /\ store' = [store EXCEPT !.bandExits = <<>>]
    /\ UNCHANGED <<finderVars, uiVars>>

Returned(name) == pc = "done" /\ op = name

\* A handler of the session sync, the planner or the storage has run
Handled(name, a, r) ==
    /\ pc' = "done"
    /\ op' = name
    /\ args' = a
    /\ ret' = r
    /\ UNCHANGED <<finderVars, store>>

(***************************************************************************)
(* Band classifier calls                                                   *)
(***************************************************************************)

\* How many 1000-km steps below the inner edge and above the outer edge are
\* sampled.
OutsideSteps == 40

BandEdges ==
    UNION {{BANDS[i].innerDistance, BANDS[i].outerDistance,
            BANDS[i].peakDensityDistance} : i \in 1..Len(BANDS)}

\* Every multiple of 1000 km from below the halo to above it (all band edges
\* and peaks are multiples of 1000), and the km on either side of every edge.
DistanceSamples ==
    {HALO_INNER_EDGE + 1000 * k :
        k \in (-OutsideSteps)..((HALO_OUTER_EDGE - HALO_INNER_EDGE) \div 1000
                                + OutsideSteps)}
    \cup {e + d : e \in BandEdges, d \in {-1, 1}}

CallFindBandByDistance ==
    /\ pc = "idle"
    /\ \E r \in DistanceSamples :
            Called("findBandByDistance", [distanceToStanton |-> r],
                   findBandByDistance(r))

CallIsInHalo ==
    /\ pc = "idle"
    /\ \E r \in DistanceSamples :
            Called("isInHalo", [distanceToStanton |-> r], isInHalo(r))

CallFindClosestBand ==
    /\ pc = "idle"
    /\ \E r \in DistanceSamples :
            Called("findClosestBand", [distanceToStanton |-> r], findClosestBand(r))

\* The distances at which a band's peak is NEARBY_LIMIT away, and the km on
\* either side of them
NearbySamples ==
    {BANDS[i].peakDensityDistance + s * NEARBY_LIMIT + d :
        i \in 1..Len(BANDS), s \in {-1, 1}, d \in {-1, 0, 1}}

CallAnalyzePosition ==
    /\ pc = "idle"
    /\ \E r \in DistanceSamples \cup NearbySamples :
            Called("analyzePosition", [distanceFromStanton |-> r],
                   analyzePosition(r))

NextBands ==
    \/ CallFindBandByDistance
    \/ CallIsInHalo
    \/ CallFindClosestBand
    \/ CallAnalyzePosition
    \/ Return

SpecBands == Init /\ [][NextBands]_vars

BandsContaining(r) ==
    {i \in 1..Len(BANDS) :
        BANDS[i].innerDistance <= r /\ r <= BANDS[i].outerDistance}

\* C2: findBandByDistance(r) returns null exactly when no band's closed
\* interval contains r, otherwise a band whose closed interval contains r,
\* and among several such bands the one with the lowest id.
C2_FindBandByDistance ==
    Returned("findBandByDistance") =>
        LET r == args.distanceToStanton
        IN  /\ (ret = Nothing) <=> (BandsContaining(r) = {})
            /\ IsSome(ret) =>
                /\ ret[1].innerDistance <= r
                /\ r <= ret[1].outerDistance
                /\ \E i \in BandsContaining(r) : BANDS[i] = ret[1]
                /\ \A i \in BandsContaining(r) : ret[1].id <= BANDS[i].id

\* C2 witness: a distance on the boundary shared by two bands was classified.
C2_Witness ==
    /\ Returned("findBandByDistance")
    /\ Cardinality(BandsContaining(args.distanceToStanton)) = 2
    /\ IsSome(ret)

LowestBand == CHOOSE b \in SeqRange(BANDS) : \A c \in SeqRange(BANDS) : b.id <= c.id

HighestBand == CHOOSE b \in SeqRange(BANDS) : \A c \in SeqRange(BANDS) : b.id >= c.id

\* C3: isInHalo(r) is true exactly for r between the inner edge of the
\* lowest-id band and the outer edge of the highest-id band, both inclusive,
\* and these are the two halo-edge constants.
C3_IsInHalo ==
    /\ HALO_INNER_EDGE = LowestBand.innerDistance
    /\ HALO_OUTER_EDGE = HighestBand.outerDistance
    /\ Returned("isInHalo") =>
        (ret <=> /\ LowestBand.innerDistance <= args.distanceToStanton
                 /\ args.distanceToStanton <= HighestBand.outerDistance)

\* C3 witness: isInHalo answered true for the outer edge itself.
C3_Witness ==
    /\ Returned("isInHalo")
    /\ args.distanceToStanton = HighestBand.outerDistance
    /\ ret = TRUE

\* C15: findClosestBand(r) returns a band of BANDS whose |r - peak| is minimal
\* over all bands, and among several bands at that minimum the one with the
\* lowest id.
C15_FindClosestBand ==
    Returned("findClosestBand") =>
        LET r == args.distanceToStanton
        IN  /\ ret \in SeqRange(BANDS)
            /\ \A i \in 1..Len(BANDS) :
                /\ Abs(r - ret.peakDensityDistance)
                    <= Abs(r - BANDS[i].peakDensityDistance)
                /\ Abs(r - ret.peakDensityDistance)
                    = Abs(r - BANDS[i].peakDensityDistance) => ret.id <= BANDS[i].id

\* C15 witness: a distance halfway between the peaks of two bands, answered
\* with the lower of the two.
C15_Witness ==
    /\ Returned("findClosestBand")
    /\ \E i \in 1..Len(BANDS) :
        /\ BANDS[i].id > ret.id
        /\ Abs(args.distanceToStanton - BANDS[i].peakDensityDistance)
            = Abs(args.distanceToStanton - ret.peakDensityDistance)

\* The bands at minimal distance from r
ClosestBands(r) ==
    {b \in SeqRange(BANDS) :
        \A c \in SeqRange(BANDS) :
            Abs(r - b.peakDensityDistance) <= Abs(r - c.peakDensityDistance)}

\* C16: analyzePosition(r) agrees with the single queries: isInHalo is
\* isInHalo(r), currentBand is findBandByDistance(r), closestBand is
\* findClosestBand(r) and distanceToClosestBand is |r - closestBand's peak|;
\* currentBand is null outside the halo, and inside it only when r lies in
\* no band's interval.
C16_AnalyzePosition ==
    Returned("analyzePosition") =>
        LET r == args.distanceFromStanton
        IN  /\ ret.distanceFromStanton = r
            /\ ret.isInHalo = isInHalo(r)
            /\ ret.isInHalo
                <=> (LowestBand.innerDistance <= r /\ r <= HighestBand.outerDistance)
            /\ ret.currentBand = findBandByDistance(r)
            /\ (ret.currentBand = Nothing) <=> (BandsContaining(r) = {})
            /\ IsSome(ret.currentBand) =>
                ret.currentBand[1].id
                    = BANDS[CHOOSE i \in BandsContaining(r) :
                                \A j \in BandsContaining(r) : i <= j].id
            /\ ret.closestBand = findClosestBand(r)
            /\ ret.closestBand \in ClosestBands(r)
            /\ ret.distanceToClosestBand = Abs(r - ret.closestBand.peakDensityDistance)
            /\ ~ret.isInHalo => ret.currentBand = Nothing
            /\ (ret.isInHalo /\ ret.currentBand = Nothing) =>
                \E i \in 1..Len(BANDS) - 1 :
                    BANDS[i].outerDistance < r /\ r < BANDS[i + 1].innerDistance

\* C16 witness: a distance inside the halo between the intervals of two bands.
C16_Witness ==
    /\ Returned("analyzePosition")
    /\ ret.isInHalo
    /\ ret.currentBand = Nothing
    /\ ret.distanceToClosestBand > 0

\* The nearbyBands list holds exactly the bands whose peak lies within limit
\* km of r, by ascending distance, tagged by the sign of (peak - r): "closer"
\* when it is negative, "further" otherwise
NearbyAsSpecified(r, nearbyBands, limit) ==
    /\ {nearbyBands[i].band : i \in 1..Len(nearbyBands)}
        = {b \in SeqRange(BANDS) : Abs(b.peakDensityDistance - r) <= limit}
    /\ \A i, j \in 1..Len(nearbyBands) :
        i < j => /\ nearbyBands[i].band # nearbyBands[j].band
                 /\ nearbyBands[i].distance <= nearbyBands[j].distance
    /\ \A i \in 1..Len(nearbyBands) :
        /\ nearbyBands[i].distance
            = Abs(nearbyBands[i].band.peakDensityDistance - r)
        /\ nearbyBands[i].direction
            = (IF nearbyBands[i].band.peakDensityDistance - r < 0
               THEN "closer" ELSE "further")

\* C17 (as amended): the nearbyBands list of analyzePosition(r) holds exactly
\* the bands whose peak lies within 500,000 km of r (inclusive), by ascending
\* distance to r, each tagged "closer" when its peak is below r and "further"
\* otherwise.
C17_NearbyBands ==
    Returned("analyzePosition") =>
        NearbyAsSpecified(args.distanceFromStanton, ret.nearbyBands, 500000)

\* C17 witness: some bands are listed and some are not, one of the listed lies
\* exactly 500,000 km away, and both tags occur.
C17_Witness ==
    /\ Returned("analyzePosition")
    /\ Len(ret.nearbyBands) > 1
    /\ Len(ret.nearbyBands) < Len(BANDS)
    /\ ret.nearbyBands[Len(ret.nearbyBands)].distance = 500000
    /\ \E i \in 1..Len(ret.nearbyBands) : ret.nearbyBands[i].direction = "closer"
    /\ \E i \in 1..Len(ret.nearbyBands) : ret.nearbyBands[i].direction = "further"

\* C17 as stated: the list holds exactly the bands whose peak lies within
\* 500 km of r.
C17_NearbyWithin500Km ==
    Returned("analyzePosition") =>
        NearbyAsSpecified(args.distanceFromStanton, ret.nearbyBands, 500)

\* innerDistance <= peakDensityDistance <= outerDistance
PeakWithinBand(band) ==
    /\ band.innerDistance <= band.peakDensityDistance
    /\ band.peakDensityDistance <= band.outerDistance

\* C18: BANDS holds exactly ten bands with ids 1..10 in table order, and every
\* band of the table, as the band queries return it, has innerDistance <=
\* peakDensityDistance <= outerDistance.
C18_BandsWellFormed ==
    /\ Len(BANDS) = 10
    /\ \A i \in 1..Len(BANDS) : BANDS[i].id = i
    /\ Returned("findClosestBand") => PeakWithinBand(ret)
    /\ (Returned("findBandByDistance") /\ IsSome(ret)) => PeakWithinBand(ret[1])
    /\ Returned("analyzePosition") =>
        \A i \in 1..Len(ret.nearbyBands) : PeakWithinBand(ret.nearbyBands[i].band)

(***************************************************************************)
(* Exit-width calls                                                        *)
(***************************************************************************)

\* Longest bandExits list passed to calculateExitWidths
MaxExits == 3

\* Band ids 1..MaxBandId occur in the lists
MaxBandId == 4

\* distanceToDestination ranges over 0..MaxDistance
MaxDistance == 3

BandExitChoices ==
    {BandExit(b, 1000 * b, d, 10 - d) : b \in 1..MaxBandId, d \in 0..MaxDistance}

\* The lists of band exits of one route: at most one entry per band, in any
\* order.
ExitLists ==
    UNION {{l \in [1..n -> BandExitChoices] :
                \A i, j \in 1..n : i # j => l[i].bandId # l[j].bandId}
           : n \in 0..MaxExits}

CallCalculateExitWidths ==
    /\ pc = "idle"
    /\ \E l \in ExitLists :
            Called("calculateExitWidths", [bandExits |-> l], calculateExitWidths(l))

NextExits == CallCalculateExitWidths \/ Return

SpecExits == Init /\ [][NextExits]_vars

\* The entries of the input list adjacent to band id b in id order
PrevExitOf(l, b) ==
    {x \in SeqRange(l) :
        /\ x.bandId < b
        /\ \A y \in SeqRange(l) : y.bandId < b => y.bandId <= x.bandId}

NextExitOf(l, b) ==
    {x \in SeqRange(l) :
        /\ x.bandId > b
        /\ \A y \in SeqRange(l) : y.bandId > b => y.bandId >= x.bandId}

GapsTo(e, neighbours) ==
    {Abs(e.distanceToDestination - x.distanceToDestination) : x \in neighbours}

\* What C1 expects of the output entry for the input entry e of list l
ExitWidthAsSpecified(l, e, out) ==
    LET prev == GapsTo(e, PrevExitOf(l, e.bandId))
        next == GapsTo(e, NextExitOf(l, e.bandId))
    IN  /\ out.distanceToDestination = e.distanceToDestination
        /\ out.distanceFromStart = e.distanceFromStart
        /\ out.distanceFromStanton = e.distanceFromStanton
        /\ (prev = {}) <=> (out.gapToPreviousBand = Nothing)
        /\ (next = {}) <=> (out.gapToNextBand = Nothing)
        /\ prev # {} => out.gapToPreviousBand[1] \in prev
        /\ next # {} => out.gapToNextBand[1] \in next
        /\ prev = {} /\ next = {} => out.exitWidth = 0
        /\ prev = {} /\ next # {} => out.exitWidth \in next
        /\ prev # {} /\ next = {} => out.exitWidth \in prev
        /\ prev # {} /\ next # {} =>
            \E p \in prev, q \in next : out.exitWidth = Min2(p, q)

\* C1: calculateExitWidths returns the entries in ascending bandId order; the
\* lowest-id entry has no gap to a previous band and its exitWidth is its gap
\* to the next entry, the highest-id entry has no gap to a next band and its
\* exitWidth is its gap to the previous entry, every other entry has the
\* minimum of its two gaps, and a single entry has exitWidth 0.
C1_ExitWidths ==
    Returned("calculateExitWidths") =>
        LET l == args.bandExits
        IN  /\ Len(ret) = Len(l)
            /\ \A i \in 1..Len(ret) - 1 : ret[i].bandId < ret[i + 1].bandId
            /\ \A i \in 1..Len(l) :
                \E k \in 1..Len(ret) :
                    /\ ret[k].bandId = l[i].bandId
                    /\ ExitWidthAsSpecified(l, l[i], ret[k])

\* C1 witness: a three-entry list given out of bandId order whose middle band
\* has two different gaps.
C1_Witness ==
    /\ Returned("calculateExitWidths")
    /\ Len(ret) = 3
    /\ args.bandExits[1].bandId > args.bandExits[2].bandId
    /\ ret[2].gapToPreviousBand # ret[2].gapToNextBand
    /\ ret[2].exitWidth = Min2(ret[2].gapToPreviousBand[1], ret[2].gapToNextBand[1])
    /\ ret[1].exitWidth > 0

(***************************************************************************)
(* Refinery scorer calls                                                   *)
(***************************************************************************)

POSITIONS == <<
    Polar(1285, 0),
    Polar(2000, 0),
    Polar(4329, (-8700)),
    Polar(5950, 15750),
    Polar(2930, 1800),
    Polar(0, 0),
    Polar(1000, 18000) >>

\* The first NumPositions entries of POSITIONS are used as user positions
NumPositions == 3

UserPositions == {POSITIONS[i] : i \in 1..NumPositions}

\* A material id that is in no table
UnknownMaterial == "nonexistent-material"

MaterialIds == {MATERIALS[i].id : i \in 1..Len(MATERIALS)}

MaterialArgs == MaterialIds \cup {UnknownMaterial}

SECONDARY_CHOICES == <<"gold", "nonexistent-material", "bexalite", "savrilium">>

\* The first NumSecondary entries of SECONDARY_CHOICES are used as secondary
\* material, besides none
NumSecondary == 2

SecondaryArgs == {""} \cup {SECONDARY_CHOICES[i] : i \in 1..NumSecondary}

MIX_CHOICES == <<8, 0, 10, 5>>

\* The first NumMixes entries of MIX_CHOICES are passed as primaryCargoWeight
\* (with the complement as secondaryCargoWeight), besides the defaults
NumMixes == 1

CargoArgs ==
    {[primary |-> Nothing, secondary |-> Nothing]}
    \cup {[primary |-> Some(MIX_CHOICES[i]), secondary |-> Some(10 - MIX_CHOICES[i])]
             : i \in 1..NumMixes}

\* distanceWeight: omitted, or 0.0, 0.1, ..., 1.0
DistanceWeightArgs == {Nothing} \cup {Some(w) : w \in 0..10}

\* The refinery table without its k-th entry (k = 0: the table itself)
TableWithout(k) ==
    FilterSeq(REFINERIES, {REFINERIES[i] : i \in (1..Len(REFINERIES)) \ {k}})

\* The entries a run may lack: the two most distant stations of the table
DroppedChoices == {11, 12}

OptimalArgs(position, materialId, w, secondaryMaterialId, cargo, dropped) ==
    [userPosition |-> position, materialId |-> materialId, distanceWeight |-> w,
     secondaryMaterialId |-> secondaryMaterialId,
     primaryCargoWeight |-> cargo.primary,
     secondaryCargoWeight |-> cargo.secondary,
     dropped |-> dropped]

CallFindOptimalRefinery ==
    /\ pc = "idle"
    /\ \E position \in UserPositions, materialId \in MaterialArgs,
           w \in DistanceWeightArgs, secondaryMaterialId \in SecondaryArgs,
           cargo \in CargoArgs :
            Called("findOptimalRefinery",
                   OptimalArgs(position, materialId, w, secondaryMaterialId, cargo, 0),
                   findOptimalRefinery(position, materialId, w, secondaryMaterialId,
                                       cargo.primary, cargo.secondary))

\* The same call against a refinery table that lacks one station
CallFindOptimalRefineryReduced ==
    /\ pc = "idle"
    /\ \E position \in UserPositions, materialId \in MaterialArgs,
           w \in 0..10, dropped \in DroppedChoices :
            Called("findOptimalRefinery",
                   OptimalArgs(position, materialId, Some(w), "",
                               [primary |-> Nothing, secondary |-> Nothing], dropped),
                   OptimalRefineryOver(TableWithout(dropped), position, materialId, w,
                                       "", PRIMARY_CARGO_WEIGHT, SECONDARY_CARGO_WEIGHT))

CallFindBestRefineryByYield ==
    /\ pc = "idle"
    /\ \E materialId \in MaterialArgs :
            Called("findBestRefineryByYield", [materialId |-> materialId],
                   findBestRefineryByYield(materialId))

CallFindClosestRefineryByPosition ==
    /\ pc = "idle"
    /\ \E position \in UserPositions :
            Called("findClosestRefineryByPosition", [userPosition |-> position],
                   findClosestRefineryByPosition(position))

NextRefinery ==
    \/ CallFindOptimalRefinery
    \/ CallFindOptimalRefineryReduced
    \/ CallFindBestRefineryByYield
    \/ CallFindClosestRefineryByPosition
    \/ Return

SpecRefinery == Init /\ [][NextRefinery]_vars

\* Position of a refinery in the table the run read
TableIndex(dropped, refinery) ==
    CHOOSE i \in 1..Len(TableWithout(dropped)) : TableWithout(dropped)[i] = refinery

\* C4: the list findOptimalRefinery returns is ordered by score, highest
\* first, and entries of equal score keep the order of their refineries in
\* REFINERIES.
C4_SortedByScore ==
    Returned("findOptimalRefinery") =>
        \A i \in 1..Len(ret) - 1 :
            /\ ret[i].score.den = ret[i + 1].score.den
            /\ ret[i].score.den > 0
            /\ ret[i + 1].score.num <= ret[i].score.num
            /\ ret[i + 1].score.num = ret[i].score.num =>
                TableIndex(args.dropped, ret[i].refinery)
                    < TableIndex(args.dropped, ret[i + 1].refinery)

\* C4 witness: a full result with a tie in score and a strict descent.
C4_Witness ==
    /\ Returned("findOptimalRefinery")
    /\ Len(ret) = Len(REFINERIES)
    /\ \E i \in 1..Len(ret) - 1 : ret[i + 1].score.num = ret[i].score.num
    /\ \E i \in 1..Len(ret) - 1 : ret[i + 1].score.num < ret[i].score.num

\* The same call with another distanceWeight
SameCallWithWeight(w) ==
    findOptimalRefinery(args.userPosition, args.materialId, Some(w),
                        args.secondaryMaterialId, args.primaryCargoWeight,
                        args.secondaryCargoWeight)

\* C5: the top-ranked refinery of a call with distanceWeight 0.9 is no
\* farther away than the top-ranked refinery of the same call with
\* distanceWeight 0.1.
C5_DistanceWeightMonotone ==
    (/\ Returned("findOptimalRefinery")
     /\ args.dropped = 0
     /\ args.distanceWeight = Some(9)) =>
        ret[1].distanceGm <= SameCallWithWeight(1)[1].distanceGm

\* C5 witness: the two weights rank different refineries first, and the one
\* chosen with 0.9 is strictly closer.
C5_Witness ==
    /\ Returned("findOptimalRefinery")
    /\ args.dropped = 0
    /\ args.distanceWeight = Some(9)
    /\ ret[1].refinery.id # SameCallWithWeight(1)[1].refinery.id
    /\ ret[1].distanceGm < SameCallWithWeight(1)[1].distanceGm

ImpactsOf(results) == {results[i].combinedValueImpact : i \in 1..Len(results)}

MinOf(S) == CHOOSE m \in S : \A x \in S : m <= x

MaxOf(S) == CHOOSE m \in S : \A x \in S : m >= x

\* The divisor of the normalisation: max - min over all candidates, 1 when
\* they are equal
RangeOf(results) ==
    IF MaxOf(ImpactsOf(results)) = MinOf(ImpactsOf(results)) THEN 1
    ELSE MaxOf(ImpactsOf(results)) - MinOf(ImpactsOf(results))

\* The fixed steps of the distance score, in twentieths
StepScore(distanceGm) ==
    CASE distanceGm < 1500 -> 20
      [] distanceGm >= 1500 /\ distanceGm < 3000 -> 17
      [] distanceGm >= 3000 /\ distanceGm < 4500 -> 12
      [] distanceGm >= 4500 /\ distanceGm < 6000 -> 7
      [] OTHER -> 3

WeightOf(a) == IF IsSome(a.distanceWeight) THEN a.distanceWeight[1] ELSE 5

\* C7: score = normalizedValue * (1 - distanceWeight) + distanceScore *
\* distanceWeight with normalizedValue = (combinedValueImpact - min) /
\* (max - min) over all candidates, the divisor being 1 when max = min; the
\* normalized value and the score lie in [0, 1].
C7_ScoreFormula ==
    Returned("findOptimalRefinery") =>
        \A i \in 1..Len(ret) :
            LET e == ret[i]
                w == WeightOf(args)
                range == RangeOf(ret)
                shifted == e.combinedValueImpact - MinOf(ImpactsOf(ret))
            IN  /\ 0 <= shifted /\ shifted <= range
                /\ e.score.den = range * 200
                /\ e.score.num = shifted * (10 - w) * 20
                                 + StepScore(e.distanceGm) * w * range
                /\ 0 <= e.score.num /\ e.score.num <= e.score.den

\* C7 witness: candidates with different impacts, one of them strictly
\* between the minimum and the maximum, scored with a weight strictly
\* between 0 and 1.
C7_Witness ==
    /\ Returned("findOptimalRefinery")
    /\ WeightOf(args) \in 1..9
    /\ \E i \in 1..Len(ret) :
        /\ ret[i].combinedValueImpact > MinOf(ImpactsOf(ret))
        /\ ret[i].combinedValueImpact < MaxOf(ImpactsOf(ret))
        /\ 0 < ret[i].score.num /\ ret[i].score.num < ret[i].score.den

\* The base value of a material id, 0 when MATERIALS has no such id
BaseValueAsSpecified(id) ==
    IF id \in MaterialIds
    THEN (CHOOSE m \in SeqRange(MATERIALS) : m.id = id).baseValue
    ELSE 0

\* The yield entry of a refinery for a material id, 0 when absent
YieldAsSpecified(refinery, id) ==
    IF id \in DOMAIN refinery.yieldBonuses THEN refinery.yieldBonuses[id] ELSE 0

\* C8: combinedValueImpact = primaryValueImpact * primaryWeight +
\* secondaryValueImpact * secondaryWeight and combinedYieldPercent =
\* yieldPercent + secondaryYieldPercent, the weights being the passed cargo
\* weights (default 0.30 and 0.70) with a secondary material and 1.0 and 0
\* without one.
C8_CombinedValueImpact ==
    Returned("findOptimalRefinery") =>
        LET given == args.secondaryMaterialId # ""
            primaryWeight ==
                IF ~given THEN 10
                ELSE IF IsSome(args.primaryCargoWeight)
                     THEN args.primaryCargoWeight[1] ELSE 3
            secondaryWeight ==
                IF ~given THEN 0
                ELSE IF IsSome(args.secondaryCargoWeight)
                     THEN args.secondaryCargoWeight[1] ELSE 7
        IN  \A i \in 1..Len(ret) :
                LET e == ret[i]
                IN  /\ e.yieldPercent = YieldAsSpecified(e.refinery, args.materialId)
                    /\ e.secondaryYieldPercent =
                        (IF given
                         THEN YieldAsSpecified(e.refinery, args.secondaryMaterialId)
                         ELSE 0)
                    /\ e.primaryValueImpact =
                        e.yieldPercent * BaseValueAsSpecified(args.materialId)
                    /\ e.secondaryValueImpact =
                        e.secondaryYieldPercent
                            * BaseValueAsSpecified(args.secondaryMaterialId)
                    /\ e.combinedValueImpact =
                        e.primaryValueImpact * primaryWeight
                        + e.secondaryValueImpact * secondaryWeight
                    /\ e.combinedYieldPercent =
                        e.yieldPercent + e.secondaryYieldPercent

\* C8 witness: a call with a secondary material and the default cargo
\* weights, where some refinery has a yield entry for both materials.
C8_Witness ==
    /\ Returned("findOptimalRefinery")
    /\ args.secondaryMaterialId # ""
    /\ args.primaryCargoWeight = Nothing
    /\ \E i \in 1..Len(ret) :
        /\ ret[i].primaryValueImpact # 0
        /\ ret[i].secondaryValueImpact # 0
        /\ ret[i].combinedValueImpact =
            3 * ret[i].primaryValueImpact + 7 * ret[i].secondaryValueImpact

\* The ids that are in no material table and in no refinery's yield table
IsUnknownMaterial(id) ==
    /\ id # ""
    /\ id \notin MaterialIds
    /\ \A i \in 1..Len(REFINERIES) : id \notin DOMAIN REFINERIES[i].yieldBonuses

RefineriesOf(results) == {results[i].refinery : i \in 1..Len(results)}

DistancePart(results, e, w) ==
    e.score.num - (e.combinedValueImpact - MinOf(ImpactsOf(results))) * (10 - w) * 20

\* The same call against the full refinery table
SameCallFullTable ==
    OptimalRefineryOver(REFINERIES, args.userPosition, args.materialId,
                        WeightOf(args), args.secondaryMaterialId,
                        Default(args.primaryCargoWeight, PRIMARY_CARGO_WEIGHT),
                        Default(args.secondaryCargoWeight, SECONDARY_CARGO_WEIGHT))

\* C10: the distance score of a refinery is the fixed step of its own
\* distance (<15 -> 1.0, <30 -> 0.85, <45 -> 0.6, <60 -> 0.35, else 0.15),
\* the same in a run over the full table and in a run over a table that
\* lacks a distant station.
C10_DistanceScoreAbsolute ==
    Returned("findOptimalRefinery") =>
        LET w == WeightOf(args)
            full == SameCallFullTable
        IN  \A i \in 1..Len(ret) :
                \E k \in 1..Len(full) :
                    /\ full[k].refinery = ret[i].refinery
                    /\ full[k].distanceGm = ret[i].distanceGm
                    /\ DistancePart(ret, ret[i], w)
                        = StepScore(ret[i].distanceGm) * w * RangeOf(ret)
                    /\ DistancePart(full, full[k], w)
                        = StepScore(ret[i].distanceGm) * w * RangeOf(full)

\* C10 witness: a run without the station that is the farthest of the full
\* table, with a distance weight above 0.
C10_Witness ==
    /\ Returned("findOptimalRefinery")
    /\ args.dropped # 0
    /\ WeightOf(args) > 0
    /\ Len(ret) = Len(REFINERIES) - 1
    /\ \A k \in 1..Len(SameCallFullTable) :
        SameCallFullTable[k].distanceGm
            <= calculateDistance(args.userPosition,
                   LOCATION_COORDINATES[REFINERIES[args.dropped].locationId])
    /\ \E i \in 1..Len(ret) : ret[i].distanceGm < 1500

primaryCargoWeight == primaryMix

secondaryCargoWeight == 10 - primaryMix

\* score: 0
ZeroScore == [num |-> 0, den |-> 1]

\* Mutant of PositiveOrAll: no fallback to the unfiltered list.
PositiveOnly(results) ==
    FilterSeq(results, {r \in SeqRange(results) : r.combinedValueImpact > 0})

\* Filter to the refineries with positive value impact; if there is none,
\* show all
PositiveOrAll(results) ==
    LET positiveResults ==
            FilterSeq(results, {r \in SeqRange(results) : r.combinedValueImpact > 0})
    IN  IF Len(positiveResults) > 0 THEN positiveResults ELSE results

\* distanceByRefineryId[id] ?? 0, over the reduce() of the result of
\* findClosestRefineryByPosition
DistanceByRefineryId(closest, id) ==
    LET found == {i \in 1..Len(closest) : closest[i].refinery.id = id}
    IN  IF found = {} THEN 0 ELSE closest[CHOOSE i \in found : TRUE].distanceGm

\* The value columns the best-yield and closest branches add to an entry
WithValueImpacts(r, yieldPercent, distanceGm) ==
    LET primaryBaseValue ==
            BaseValueOrZero(IF selectedMaterial # ""
                            THEN getMaterialById(selectedMaterial) ELSE Nothing)
        secondaryBaseValue ==
            BaseValueOrZero(IF secondaryMaterial # ""
                            THEN getMaterialById(secondaryMaterial) ELSE Nothing)
        secondaryYieldPercent == SecondaryYield(r.refinery, secondaryMaterial)
        primaryValueImpact == yieldPercent * primaryBaseValue
        secondaryValueImpact ==
            IF secondaryMaterial # "" THEN secondaryYieldPercent * secondaryBaseValue
            ELSE 0
    IN  [refinery |-> r.refinery,
         location |-> r.location,
         distanceGm |-> distanceGm,
         score |-> ZeroScore,
         yieldPercent |-> yieldPercent,
         secondaryYieldPercent |-> secondaryYieldPercent,
         combinedYieldPercent |-> yieldPercent + secondaryYieldPercent,
         primaryValueImpact |-> primaryValueImpact,
         secondaryValueImpact |-> secondaryValueImpact,
         combinedValueImpact |->
             primaryValueImpact * primaryCargoWeight
             + secondaryValueImpact * secondaryCargoWeight]

BestYieldResults ==
    LET closest == IF IsSome(userPosition)
                   THEN findClosestRefineryByPosition(userPosition[1]) ELSE <<>>
        byYield == findBestRefineryByYield(selectedMaterial)
        results ==
            Array([i \in 1..Len(byYield) |->
                WithValueImpacts(byYield[i], byYield[i].yieldPercent,
                                 IF IsSome(userPosition)
                                 THEN DistanceByRefineryId(closest,
                                                           byYield[i].refinery.id)
                                 ELSE 0)])
        sorted == SortDescBy(results, [i \in 1..Len(results) |->
                                          results[i].combinedValueImpact])
    IN  PositiveOrAll(sorted)

ClosestResults ==
    LET closest == findClosestRefineryByPosition(userPosition[1])
    IN  Array([i \in 1..Len(closest) |->
            WithValueImpacts(closest[i],
                             IF selectedMaterial # ""
                             THEN getYieldBonus(closest[i].refinery, selectedMaterial)
                             ELSE 0,
                             closest[i].distanceGm)])

\* Optimal mode without a material: just the distance
DistanceOnlyResults ==
    LET closest == findClosestRefineryByPosition(userPosition[1])
    IN  Array([i \in 1..Len(closest) |->
            [refinery |-> closest[i].refinery,
             location |-> closest[i].location,
             distanceGm |-> closest[i].distanceGm,
             yieldPercent |-> 0,
             secondaryYieldPercent |-> 0,
             combinedYieldPercent |-> 0,
             score |-> ZeroScore]])

\* The useMemo that computes the recommendations from the component's state
refineryResults ==
    IF selectionMode = "best-yield"
    THEN IF selectedMaterial = "" THEN <<>> ELSE BestYieldResults
    ELSE IF userPosition = Nothing THEN <<>>
    ELSE IF selectionMode = "closest" THEN ClosestResults
    ELSE IF selectedMaterial = "" THEN DistanceOnlyResults
    ELSE findOptimalRefinery(userPosition[1], selectedMaterial, Some(distanceWeight),
                             secondaryMaterial, Some(primaryCargoWeight),
                             Some(secondaryCargoWeight))

\* results.find(r => r.refinery.id === selectedAlternativeId), or null
FindSelected(results) ==
    LET found == IF selectedAlternativeId = Nothing THEN {}
                 ELSE {i \in 1..Len(results) :
                          results[i].refinery.id = selectedAlternativeId[1]}
    IN  IF found = {} THEN Nothing
        ELSE Some(results[CHOOSE i \in found : \A j \in found : i <= j])

selectedResult == FindSelected(refineryResults)

\* selectedResult || recommendedResult (undefined for an empty list)
DisplayedOf(results) ==
    LET selected == FindSelected(results)
    IN  IF IsSome(selected) THEN selected
        ELSE IF Len(results) > 0 THEN Some(results[1])
        ELSE Nothing

\* Alternatives exclude the currently displayed result; the first four
AlternativeIdsOf(results) ==
    LET displayed == DisplayedOf(results)
        ids == Array([i \in 1..Len(results) |-> results[i].refinery.id])
        others ==
            FilterSeq(ids, {id \in SeqRange(ids) :
                               displayed = Nothing \/ id # displayed[1].refinery.id})
    IN  SubSeq(others, 1, Min2(4, Len(others)))

alternatives == AlternativeIdsOf(refineryResults)

FINDER_MATERIALS == <<"quantanium", "riccite", "taranite", "gold", "corundum">>

\* The first NumFinderMaterials entries of FINDER_MATERIALS are the options
\* of the two material dropdowns that are chosen
NumFinderMaterials == 3

FinderMaterialOptions == {FINDER_MATERIALS[i] : i \in 1..NumFinderMaterials}

WEIGHT_STOPS == <<9, 1, 0, 10, 5>>

\* The first NumWeightStops entries of WEIGHT_STOPS are the positions the
\* priority-balance slider is moved to
NumWeightStops == 1

MIX_STOPS == <<0, 10, 5, 3>>

\* The first NumMixStops entries of MIX_STOPS are the positions the cargo-mix
\* slider is moved to
NumMixStops == 2

\* The first NumFinderPositions entries of POSITIONS are the positions the
\* component is given
NumFinderPositions == 1

\* onChange of the primary material dropdown
SetSelectedMaterial ==
    \E newPrimary \in FinderMaterialOptions \cup {""} :
        /\ selectedMaterial' = newPrimary
        /\ selectedAlternativeId' = Nothing
        /\ secondaryMaterial' =
            (IF newPrimary = secondaryMaterial THEN "" ELSE secondaryMaterial)
        /\ UNCHANGED <<selectionMode, distanceWeight, primaryMix, userPosition>>
        /\ UNCHANGED <<callVars, appVars>>

\* onChange of the secondary material dropdown; the option of the primary
\* material is disabled
SetSecondaryMaterial ==
    \E value \in (FinderMaterialOptions \ {selectedMaterial}) \cup {""} :
        /\ secondaryMaterial' = value
        /\ selectedAlternativeId' = Nothing
        /\ UNCHANGED <<selectedMaterial, selectionMode, distanceWeight, primaryMix,
                       userPosition>>
        /\ UNCHANGED <<callVars, appVars>>

handleModeChange ==
    \E mode \in {"closest", "best-yield", "optimal"} :
        /\ selectionMode' = mode
        /\ selectedAlternativeId' = Nothing
        /\ UNCHANGED <<selectedMaterial, secondaryMaterial, distanceWeight,
                       primaryMix, userPosition>>
        /\ UNCHANGED <<callVars, appVars>>

\* The priority-balance slider, shown in optimal mode only
SetDistanceWeight ==
    /\ selectionMode = "optimal"
    /\ \E i \in 1..NumWeightStops : distanceWeight' = WEIGHT_STOPS[i]
    /\ UNCHANGED <<selectedMaterial, secondaryMaterial, selectionMode, primaryMix,
                   userPosition, selectedAlternativeId>>
    /\ UNCHANGED <<callVars, appVars>>

\* The cargo-mix slider, shown when a secondary material is selected
SetPrimaryMix ==
    /\ secondaryMaterial # ""
    /\ \E i \in 1..NumMixStops : primaryMix' = MIX_STOPS[i]
    /\ UNCHANGED <<selectedMaterial, secondaryMaterial, selectionMode,
                   distanceWeight, userPosition, selectedAlternativeId>>
    /\ UNCHANGED <<callVars, appVars>>

\* Click on an entry of the alternatives list
SelectAlternative ==
    /\ \E id \in SeqRange(alternatives) : selectedAlternativeId' = Some(id)
    /\ UNCHANGED <<selectedMaterial, secondaryMaterial, selectionMode,
                   distanceWeight, primaryMix, userPosition>>
    /\ UNCHANGED <<callVars, appVars>>

\* The clear button of a selected alternative
ClearAlternative ==
    /\ selectedAlternativeId # Nothing
    /\ IsSome(selectedResult)
    /\ selectedAlternativeId' = Nothing
    /\ UNCHANGED <<selectedMaterial, secondaryMaterial, selectionMode,
                   distanceWeight, primaryMix, userPosition>>
    /\ UNCHANGED <<callVars, appVars>>

\* The userPosition memo is recomputed from the component's props: null, or
\* the coordinate the route or the Where Am I input gives
UserPositionChanged ==
    /\ \E position \in {Nothing} \cup {Some(POSITIONS[i]) : i \in 1..NumFinderPositions} :
        userPosition' = position
    /\ UNCHANGED <<selectedMaterial, secondaryMaterial, selectionMode,
                   distanceWeight, primaryMix, selectedAlternativeId>>
    /\ UNCHANGED <<callVars, appVars>>

NextFinder ==
    \/ SetSelectedMaterial
    \/ SetSecondaryMaterial
    \/ handleModeChange
    \/ SetDistanceWeight
    \/ SetPrimaryMix
    \/ SelectAlternative
    \/ ClearAlternative
    \/ UserPositionChanged

SpecFinder == Init /\ [][NextFinder]_vars

\* The combined value impact of a refinery for the selected materials and
\* cargo mix
ImpactAsSpecified(refinery) ==
    YieldAsSpecified(refinery, selectedMaterial)
        * BaseValueAsSpecified(selectedMaterial) * primaryMix
    + (IF secondaryMaterial = "" THEN 0
       ELSE YieldAsSpecified(refinery, secondaryMaterial)
                * BaseValueAsSpecified(secondaryMaterial) * (10 - primaryMix))

PositiveCandidates == {r \in SeqRange(REFINERIES) : ImpactAsSpecified(r) > 0}

\* C6: in best-yield mode with a material selected the list is never empty:
\* it holds exactly the candidates with a positive combined value impact when
\* there is one, and otherwise all candidates, in either case sorted by
\* combined value impact, highest first.
C6_BestYieldNeverEmpty ==
    (selectionMode = "best-yield" /\ selectedMaterial # "") =>
        LET results == refineryResults
        IN  /\ Len(results) > 0
            /\ \A i \in 1..Len(results) :
                results[i].combinedValueImpact = ImpactAsSpecified(results[i].refinery)
            /\ \A i, j \in 1..Len(results) :
                i < j => /\ results[i].refinery # results[j].refinery
                         /\ results[i].combinedValueImpact
                                >= results[j].combinedValueImpact
            /\ RefineriesOf(results) =
                (IF PositiveCandidates # {} THEN PositiveCandidates
                 ELSE SeqRange(REFINERIES))

\* C6 witness: best-yield mode, a material selected, no candidate with a
\* positive impact, and the complete list is shown.
C6_Witness ==
    /\ selectionMode = "best-yield"
    /\ selectedMaterial # ""
    /\ PositiveCandidates = {}
    /\ Len(refineryResults) = Len(REFINERIES)

(***************************************************************************)
(* Route calls                                                             *)
(***************************************************************************)

\* The ids that start or end a route, and one that does neither
RouteIdArgs ==
    {ROUTES[i].startId : i \in 1..Len(ROUTES)}
    \cup {ROUTES[i].destinationId : i \in 1..Len(ROUTES)}
    \cup {"invalid-start"}

\* The band ids of BANDS, the two next to them, and a distant one
BandIdArgs == 0..(Len(BANDS) + 1) \cup {99}

ShipArgs == {Nothing, Some("prospector")}

CallGetDestinationsByBandWidth ==
    /\ pc = "idle"
    /\ \E startId \in RouteIdArgs, bandId \in BandIdArgs :
            Called("getDestinationsByBandWidth",
                   [startId |-> startId, bandId |-> bandId],
                   getDestinationsByBandWidth(startId, bandId))

CallAnalyzeRoute ==
    /\ pc = "idle"
    /\ \E startId \in RouteIdArgs, destinationId \in RouteIdArgs, ship \in ShipArgs :
            Called("analyzeRoute",
                   [startId |-> startId, destinationId |-> destinationId,
                    ship |-> ship],
                   analyzeRoute(startId, destinationId, ship))

CallGetExitDistances ==
    /\ pc = "idle"
    /\ \E startId \in RouteIdArgs, destinationId \in RouteIdArgs,
           bandId \in BandIdArgs :
            Called("getExitDistances",
                   [startId |-> startId, destinationId |-> destinationId,
                    bandId |-> bandId],
                   getExitDistances(startId, destinationId, bandId))

\* calculateExitWidths of the bandExits of a route of the table
CallRouteExitWidths ==
    /\ pc = "idle"
    /\ \E k \in 1..Len(ROUTES) :
            Called("calculateExitWidths", [bandExits |-> ROUTES[k].bandExits],
                   calculateExitWidths(ROUTES[k].bandExits))

NextRoutes ==
    \/ CallRouteExitWidths
    \/ CallGetDestinationsByBandWidth
    \/ CallAnalyzeRoute
    \/ CallGetExitDistances
    \/ Return

SpecRoutes == Init /\ [][NextRoutes]_vars

\* The positions in ROUTES of the routes that leave startId and have an exit
\* for bandId
RoutesWithBand(startId, bandId) ==
    {k \in 1..Len(ROUTES) :
        /\ ROUTES[k].startId = startId
        /\ \E e \in SeqRange(ROUTES[k].bandExits) : e.bandId = bandId}

\* The exit of a route for a band
ExitOfBand(route, bandId) ==
    CHOOSE e \in SeqRange(route.bandExits) : e.bandId = bandId

\* The exit width of a route at one of its exits: the smaller of the gaps to
\* the exits of the neighbouring band ids, 0 without neighbours
WidthAsSpecified(route, e) ==
    LET gaps == GapsTo(e, PrevExitOf(route.bandExits, e.bandId))
                \cup GapsTo(e, NextExitOf(route.bandExits, e.bandId))
    IN  IF gaps = {} THEN 0 ELSE MinOf(gaps)

\* C13: getDestinationsByBandWidth returns exactly one entry per route of
\* ROUTES that leaves the start and has an exit for the band, with that
\* route's exitWidth for the band and exitDistance = the exit's
\* distanceToDestination, ordered by exitWidth, widest first, entries of equal
\* width in the order of their routes in ROUTES.
C13_DestinationsByBandWidth ==
    Returned("getDestinationsByBandWidth") =>
        LET from == RoutesWithBand(args.startId, args.bandId)
            RouteOf(entry) ==
                CHOOSE k \in from : ROUTES[k].destinationId = entry.destinationId
        IN  /\ Len(ret) = Cardinality(from)
            /\ {ret[i].destinationId : i \in 1..Len(ret)}
                = {ROUTES[k].destinationId : k \in from}
            /\ \A i \in 1..Len(ret) :
                LET route == ROUTES[RouteOf(ret[i])]
                    exit == ExitOfBand(route, args.bandId)
                IN  /\ ret[i].exitDistance = exit.distanceToDestination
                    /\ ret[i].exitWidth = WidthAsSpecified(route, exit)
            /\ \A i \in 1..Len(ret) - 1 :
                /\ ret[i].exitWidth >= ret[i + 1].exitWidth
                /\ ret[i].exitWidth = ret[i + 1].exitWidth =>
                    RouteOf(ret[i]) < RouteOf(ret[i + 1])

\* C13 witness: a start with several routes whose widest exit for the band is
\* not that of its first route in ROUTES.
C13_Witness ==
    /\ Returned("getDestinationsByBandWidth")
    /\ Len(ret) >= 3
    /\ ret[1].exitWidth > ret[Len(ret)].exitWidth
    /\ ret[1].destinationId
        # ROUTES[CHOOSE k \in RoutesWithBand(args.startId, args.bandId) :
                    \A m \in RoutesWithBand(args.startId, args.bandId) : k <= m]
            .destinationId

\* No route of ROUTES joins the pair of ids
NoRouteFor(startId, destinationId) ==
    \A k \in 1..Len(ROUTES) :
        ~(ROUTES[k].startId = startId /\ ROUTES[k].destinationId = destinationId)

\* The band ids the route of the pair has an exit for
ExitBandsOf(startId, destinationId) ==
    {e.bandId : e \in UNION {SeqRange(ROUTES[k].bandExits) :
                                k \in {m \in 1..Len(ROUTES) :
                                          /\ ROUTES[m].startId = startId
                                          /\ ROUTES[m].destinationId = destinationId}}}

\* C14: lookups by an unknown id return an absent value and do not throw:
\* analyzeRoute and getExitDistances return null when no route joins the pair,
\* getExitDistances returns null for a band id that is not among the route's
\* exits or not in BANDS, and getDestinationsByBandWidth returns an empty list
\* for a start without routes.
C14_UnknownIds ==
    /\ Returned("analyzeRoute") =>
        /\ ~IsThrown(ret)
        /\ NoRouteFor(args.startId, args.destinationId) => ret = Nothing
    /\ Returned("getExitDistances") =>
        /\ ~IsThrown(ret)
        /\ NoRouteFor(args.startId, args.destinationId) => ret = Nothing
        /\ args.bandId \notin ExitBandsOf(args.startId, args.destinationId)
            => ret = Nothing
        /\ args.bandId \notin {BANDS[i].id : i \in 1..Len(BANDS)} => ret = Nothing
    /\ (/\ Returned("getDestinationsByBandWidth")
        /\ \A k \in 1..Len(ROUTES) : ROUTES[k].startId # args.startId) =>
        ret = <<>>

\* C14 witness: getExitDistances returned null for band 99 of a route that
\* exists.
C14_Witness ==
    /\ Returned("getExitDistances")
    /\ ~NoRouteFor(args.startId, args.destinationId)
    /\ args.bandId = 99
    /\ ret = Nothing

\* C19: every route of ROUTES has exactly one exit for each band id 1..10, in
\* ascending bandId order, and analyzeRoute of an existing route returns ten
\* band exits, one per band in that order, and at most three recommended
\* bands.
C19_RouteBandExits ==
    /\ \A k \in 1..Len(ROUTES) :
        /\ Len(ROUTES[k].bandExits) = 10
        /\ \A i \in 1..Len(ROUTES[k].bandExits) : ROUTES[k].bandExits[i].bandId = i
    /\ (Returned("analyzeRoute") /\ IsSome(ret)) =>
        /\ ret[1].route.startId = args.startId
        /\ ret[1].route.destinationId = args.destinationId
        /\ Len(ret[1].bandExits) = 10
        /\ \A i \in 1..Len(ret[1].bandExits) :
            /\ ret[1].bandExits[i].exit = ret[1].route.bandExits[i]
            /\ ret[1].bandExits[i].exit.bandId = i
            /\ ret[1].bandExits[i].band.id = i
        /\ Len(ret[1].recommendedBands) <= 3
        /\ \A i \in 1..Len(ret[1].recommendedBands) :
            ret[1].recommendedBands[i] \in SeqRange(BANDS)

\* C19 witness: the analysis of an existing route, recommending three bands
\* with the densest band first.
C19_Witness ==
    /\ Returned("analyzeRoute")
    /\ IsSome(ret)
    /\ Len(ret[1].bandExits) = 10
    /\ Len(ret[1].recommendedBands) = 3
    /\ ret[1].recommendedBands[1].id = 5
    /\ ret[1].recommendedBands[2].id = 7

(***************************************************************************)
(* Route interpolation calls                                               *)
(***************************************************************************)

\* The locations whose coordinates are passed as start and destination
ROUTE_POINTS == <<"hurston", "microtech", "mic-l1", "mic-l2", "arc-l2",
                  "crusader", "cru-l3", "mic-l5", "nyx-gateway", "pyro-gateway">>

\* The bands whose peaks are passed as target radius
TARGET_BANDS == <<5, 1, 10, 7, 3>>

\* How many of ROUTE_POINTS and of TARGET_BANDS are used
NumRoutePoints == 8

NumTargetBands == 3

\* together with the origin and two points of the vertical line x = 10 Gm
RoutePoints == {LOCATION_COORDINATES[ROUTE_POINTS[i]] : i \in 1..Min2(NumRoutePoints, Len(ROUTE_POINTS))} \cup {Polar(0, 0), Polar(2000, -6000), Polar(1000, 0)}

\* targetRadius = band.peakDensityDistance / 1_000_000 (Gm), in hundredths
\* together with 10 Gm, the radius that line is tangent to
TargetRadii == {BANDS[TARGET_BANDS[i]].peakDensityDistance \div 10000 : i \in 1..Min2(NumTargetBands, Len(TARGET_BANDS))} \cup {1000}

CallInterpolatePositionOnRoute ==
    /\ pc = "idle"
    /\ \E start \in RoutePoints, destination \in RoutePoints,
           targetRadius \in TargetRadii :
            Called("interpolatePositionOnRoute",
                   [start |-> start, destination |-> destination,
                    targetRadius |-> targetRadius],
                   interpolatePositionOnRoute(start, destination, targetRadius))

\* The coordinates converted to cartesian and back: the route points, points
\* at -180 and 180 degrees, and the origin given with angles other than 0
RoundTripPoints == RoutePoints \cup {Polar(500, 18000), Polar(500, -18000), Polar(0, 18000), Polar(0, 15000), Polar(0, -11000), Polar(0, -6000)}

CallCartesianToPolar ==
    /\ pc = "idle"
    /\ \E polar \in RoundTripPoints :
            Called("cartesianToPolar", [polar |-> polar],
                   cartesianToPolar(polarToCartesian(polar)))

CallCalculateDistance ==
    /\ pc = "idle"
    /\ \E a \in RoundTripPoints, b \in RoundTripPoints :
            Called("calculateDistance", [a |-> a, b |-> b], calculateDistance(a, b))

NextPolar ==
    \/ CallInterpolatePositionOnRoute
    \/ CallCartesianToPolar
    \/ CallCalculateDistance
    \/ Return

SpecPolar == Init /\ [][NextPolar]_vars

Dot(a, b) == a.x * b.x + a.y * b.y

Cross(a, b) == a.x * b.y - a.y * b.x

Minus(a, b) == [x |-> a.x - b.x, y |-> a.y - b.y]

\* The cartesian point of a polar coordinate with any angle
CartesianOf(polar) ==
    [x |-> RoundDiv(polar.r * CosNear(polar.theta), 10000),
     y |-> RoundDiv(polar.r * SinNear(polar.theta), 10000)]

\* Two lengths in hundredths of a Gm that agree up to the rounding of the
\* fixed-point arithmetic
NearLength(a, b) == Abs(a - b) <= 5

\* Two angles in hundredths of a degree that agree modulo 360 degrees up to
\* the rounding of the fixed-point arithmetic
NearAngle(a, b) ==
    LET gap == (a - b) % 36000
    IN  gap <= 5 \/ gap >= 36000 - 5

\* The line from S along V comes within less than R of the origin
Reaches(S, V, R) ==
    LET L == Sqrt(Dot(V, V))
    IN  L > 0 /\ R > 10 /\ Abs(Cross(S, V)) <= (R - 10) * L

\* The polar point p lies on the line from S along V, at distance R from the
\* origin, and not behind S
CrossingAhead(p, S, V, R) ==
    LET L == Sqrt(Dot(V, V))
        P == CartesianOf(p)
    IN  /\ NearLength(p.r, R)
        /\ Abs(Cross(Minus(P, S), V)) <= 5 * L
        /\ Dot(Minus(P, S), V) >= -5 * L

\* C20: for different start and destination points and a target radius the
\* line through them reaches, interpolatePositionOnRoute returns the point of
\* the line at distance targetRadius from the origin that lies ahead of start:
\* the first of the two crossings when start is outside the circle and
\* travelling towards it (both roots >= 0), the only crossing ahead when
\* start is inside (one root < 0); when both crossings lie behind start (both
\* roots < 0) it returns the destination's direction at radius targetRadius.
C20_InterpolatePositionOnRoute ==
    Returned("interpolatePositionOnRoute") =>
        LET S == polarToCartesian(args.start)
            D == polarToCartesian(args.destination)
            V == Minus(D, S)
            L == Sqrt(Dot(V, V))
            R == args.targetRadius
            startR == Sqrt(Dot(S, S))
            inside == startR <= R - 10
            outside == startR >= R + 10
        IN  Reaches(S, V, R) =>
            /\ ~IsNaNPolar(ret)
            /\ inside => CrossingAhead(ret, S, V, R)
            /\ (outside /\ Dot(S, V) < 0) =>
                /\ CrossingAhead(ret, S, V, R)
                /\ Dot(CartesianOf(ret), V) <= 5 * L
            /\ (outside /\ Dot(S, V) > 0) =>
                /\ NearLength(ret.r, R)
                /\ NearAngle(ret.theta, args.destination.theta)

\* C20 witness: a call from outside the circle towards it returned the
\* nearer of two crossings that lie well apart.
C20_Witness ==
    /\ Returned("interpolatePositionOnRoute")
    /\ LET S == polarToCartesian(args.start)
           V == Minus(polarToCartesian(args.destination), S)
           L == Sqrt(Dot(V, V))
           R == args.targetRadius
       IN  /\ Reaches(S, V, R)
           /\ Sqrt(Dot(S, S)) >= R + 10
           /\ Dot(S, V) < 0
           /\ CrossingAhead(ret, S, V, R)
           /\ Dot(CartesianOf(ret), V) <= -100 * L

\* C21: when the line through start and destination stays farther than
\* targetRadius from the origin (discriminant < 0), interpolatePositionOnRoute
\* returns the direction of the midpoint of start and destination at radius
\* targetRadius; when the line is tangent to the circle (discriminant = 0) and
\* the tangent point is not behind start, it returns the tangent point (the
\* repeated root), not the midpoint fallback.
C21_MidpointFallback ==
    Returned("interpolatePositionOnRoute") =>
        LET S == polarToCartesian(args.start)
            D == polarToCartesian(args.destination)
            V == Minus(D, S)
            L == Sqrt(Dot(V, V))
            R == args.targetRadius
            M == [x |-> RoundDiv(S.x + D.x, 2), y |-> RoundDiv(S.y + D.y, 2)]
            lenM == Sqrt(Dot(M, M))
        IN  /\ (L > 0 /\ Abs(Cross(S, V)) >= (R + 10) * L) =>
                /\ ~IsNaNPolar(ret)
                /\ NearLength(ret.r, R)
                /\ Abs(Cross(CartesianOf(ret), M)) <= 5 * lenM
                /\ Dot(CartesianOf(ret), M) > 0
            /\ (L > 0 /\ L * L = Dot(V, V) /\ Abs(Cross(S, V)) = R * L /\ Dot(S, V) <= 0) =>
                /\ ~IsNaNPolar(ret)
                /\ NearLength(ret.r, R)
                /\ Abs(Cross(Minus(CartesianOf(ret), S), V)) <= 5 * L
                /\ Abs(Dot(CartesianOf(ret), V)) <= 5 * L

\* C21 witness: a line that misses the circle by more than 1 Gm returned the
\* midpoint's direction, which lies strictly between the directions of start
\* and destination.
C21_Witness ==
    /\ Returned("interpolatePositionOnRoute")
    /\ LET S == polarToCartesian(args.start)
           D == polarToCartesian(args.destination)
           V == Minus(D, S)
           L == Sqrt(Dot(V, V))
           M == [x |-> RoundDiv(S.x + D.x, 2), y |-> RoundDiv(S.y + D.y, 2)]
       IN  /\ L > 0
           /\ Abs(Cross(S, V)) >= (args.targetRadius + 100) * L
           /\ NearLength(ret.r, args.targetRadius)
           /\ Abs(Cross(CartesianOf(ret), M)) <= 5 * Sqrt(Dot(M, M))
           /\ ret.theta # args.start.theta
           /\ ret.theta # args.destination.theta

\* C22: when start and destination are the same point,
\* interpolatePositionOnRoute returns start unchanged, for every targetRadius.
C22_SamePointReturnsStart ==
    (/\ Returned("interpolatePositionOnRoute")
     /\ polarToCartesian(args.start) = polarToCartesian(args.destination)) =>
        ret = args.start

\* C23: for every polar coordinate p with r > 0,
\* cartesianToPolar(polarToCartesian(p)) has the same r and the same theta
\* modulo 360 degrees; the returned theta lies within (-180, 180] degrees;
\* for r = 0 the returned theta is 0.
C23_RoundTrip ==
    Returned("cartesianToPolar") =>
        /\ args.polar.r > 0 =>
            /\ NearLength(ret.r, args.polar.r)
            /\ NearAngle(ret.theta, args.polar.theta)
        /\ ret.theta > -18000
        /\ ret.theta <= 18000
        /\ args.polar.r = 0 => ret.theta = 0

\* Two polar coordinates that denote the same point: the same r and the same
\* theta modulo 360 degrees, or both at the origin
SamePoint(a, b) ==
    \/ a.r = 0 /\ b.r = 0
    \/ a.r = b.r /\ (a.theta - b.theta) % 36000 = 0

\* C24: calculateDistance(a, b) = calculateDistance(b, a); the distance is 0
\* exactly when a and b denote the same point; two points with equal r at
\* angles 180 degrees apart are at distance 2r.
C24_CalculateDistance ==
    Returned("calculateDistance") =>
        /\ ret = calculateDistance(args.b, args.a)
        /\ ret >= 0
        /\ ret = 0 <=> SamePoint(args.a, args.b)
        /\ (args.a.r = args.b.r /\ (args.a.theta - args.b.theta) % 36000 = 18000) =>
            NearLength(ret, 2 * args.a.r)

\* C24 witness: the distance between two opposite points away from the
\* origin was returned as twice their radius.
C24_Witness ==
    /\ Returned("calculateDistance")
    /\ args.a.r = args.b.r
    /\ args.a.r > 1000
    /\ (args.a.theta - args.b.theta) % 36000 = 18000
    /\ NearLength(ret, 2 * args.a.r)

(***************************************************************************)
(* Shared arrays and the core operations (frame)                           *)
(***************************************************************************)

\* A reference to an array: one of the shared arrays of the store, the
\* bandExits of route number `route` of ROUTES, or an array created by the
\* call itself
SharedRef(table) == [table |-> table]

RouteExitsRef(route) == [table |-> "ROUTES", route |-> route]

Fresh == [table |-> "fresh"]

\* A spread that hands back the array itself instead of a copy
SpreadAlias(ref) == ref

\* [...array], and likewise map, filter, slice and []: a new array
Spread(ref) == Fresh

ContentsAt(st, ref) ==
    IF "route" \in DOMAIN ref THEN st.ROUTES[ref.route].bandExits
    ELSE st[ref.table]

\* Array.prototype.sort sorts the array it is called on in place: a shared
\* array takes the sorted contents, an array of the call's own is dropped
\* with the call
SortInPlace(st, ref, sorted) ==
    IF ref = Fresh THEN st
    ELSE IF "route" \in DOMAIN ref
    THEN [st EXCEPT !.ROUTES[ref.route].bandExits = sorted]
    ELSE [st EXCEPT ![ref.table] = sorted]

\* calculateExitWidths(bandExits): [...bandExits].sort(by bandId), then map
calculateExitWidthsStore(st, ref) ==
    LET bandExits == ContentsAt(st, ref)
    IN  SortInPlace(st, Spread(ref),
                    SortAscBy(bandExits, [i \in 1..Len(bandExits) |-> bandExits[i].bandId]))

\* getDestinationsByBandWidth: ROUTES.filter, then calculateExitWidths of
\* route.bandExits for each route k.. of the table that leaves startId, then
\* filter and a sort of the results
RECURSIVE getDestinationsByBandWidthStore(_, _, _)
getDestinationsByBandWidthStore(st, startId, k) ==
    IF k > Len(st.ROUTES) THEN SortInPlace(st, Spread(Spread(SharedRef("ROUTES"))), <<>>)
    ELSE getDestinationsByBandWidthStore(
             IF st.ROUTES[k].startId = startId
             THEN calculateExitWidthsStore(st, RouteExitsRef(k))
             ELSE st,
             startId, k + 1)

\* analyzeRoute: route.bandExits.map (getRouteWithBandInfo), bandDetails.map,
\* and [...bandDetails].sort(by density).slice(0, 3).map
analyzeRouteStore(st) == SortInPlace(st, Spread(Spread(SharedRef("ROUTES"))), <<>>)

\* BANDS.map(...).filter(...).sort(...) in analyzePosition and
\* BANDS.map(...).sort(...) in getRecommendedBands
bandsMapSortStore(st) == SortInPlace(st, Spread(SharedRef("BANDS")), <<>>)

\* results = []; for (const refinery of REFINERIES) results.push(...);
\* results.sort(...)
refineryResultsStore(st) == SortInPlace(st, Fresh, <<>>)

\* getRecommendedBands over the array BANDS holds: score = relativeDensity,
\* + 0.2 from 0.8 on when prioritizeDensity, - 0.1 for bands 1 and 10 when
\* avoidEdges, + 0.1 when the description includes 'Highest' or 'Peak' (band
\* 5 only); in hundredths, sorted by descending score
getRecommendedBands(bands, prioritizeDensity, avoidEdges) ==
    LET density(band) == RELATIVE_DENSITY[band.id]
        high(band) == prioritizeDensity /\ density(band) >= 80
        edge(band) == avoidEdges /\ band.id \in {1, 10}
        score(band) == density(band) + (IF high(band) THEN 20 ELSE 0)
                           - (IF edge(band) THEN 10 ELSE 0)
                           + (IF band.id = 5 THEN 10 ELSE 0)
        scored == [i \in 1..Len(bands) |->
                      [band |-> bands[i], score |-> score(bands[i]),
                       highDensity |-> high(bands[i]), edgeBand |-> edge(bands[i])]]
    IN  SortDescBy(scored, [i \in 1..Len(bands) |-> scored[i].score])

FrameAnalyzePosition ==
    /\ pc = "idle"
    /\ \E r \in {HALO_INNER_EDGE, BANDS[5].peakDensityDistance, HALO_OUTER_EDGE + NEARBY_LIMIT} :
            CalledWithStore("analyzePosition", [distanceFromStanton |-> r],
                            analyzePosition(r), bandsMapSortStore(store))

FrameGetRecommendedBands ==
    /\ pc = "idle"
    /\ \E prioritizeDensity \in BOOLEAN, avoidEdges \in BOOLEAN :
            CalledWithStore("getRecommendedBands",
                            [prioritizeDensity |-> prioritizeDensity, avoidEdges |-> avoidEdges],
                            getRecommendedBands(store.BANDS, prioritizeDensity, avoidEdges),
                            bandsMapSortStore(store))

FrameAnalyzeRoute ==
    /\ pc = "idle"
    /\ \E startId \in RouteIdArgs, destinationId \in RouteIdArgs :
            CalledWithStore("analyzeRoute",
                            [startId |-> startId, destinationId |-> destinationId,
                             ship |-> Nothing],
                            analyzeRoute(startId, destinationId, Nothing),
                            analyzeRouteStore(store))

FrameCalculateExitWidths ==
    /\ pc = "idle"
    /\ \E l \in ExitLists :
            CalledWithStore("calculateExitWidths", [bandExits |-> l],
                            calculateExitWidths(l),
                            calculateExitWidthsStore([store EXCEPT !.bandExits = l],
                                                     SharedRef("bandExits")))

FrameGetDestinationsByBandWidth ==
    /\ pc = "idle"
    /\ \E startId \in RouteIdArgs, bandId \in {1, 5, 10, 99} :
            CalledWithStore("getDestinationsByBandWidth",
                            [startId |-> startId, bandId |-> bandId],
                            getDestinationsByBandWidth(startId, bandId),
                            getDestinationsByBandWidthStore(store, startId, 1))

FrameFindBestRefineryByYield ==
    /\ pc = "idle"
    /\ \E materialId \in MaterialArgs :
            CalledWithStore("findBestRefineryByYield", [materialId |-> materialId],
                            findBestRefineryByYield(materialId),
                            refineryResultsStore(store))

FrameFindClosestRefineryByPosition ==
    /\ pc = "idle"
    /\ \E position \in UserPositions :
            CalledWithStore("findClosestRefineryByPosition", [userPosition |-> position],
                            findClosestRefineryByPosition(position),
                            refineryResultsStore(store))

FrameFindOptimalRefinery ==
    /\ pc = "idle"
    /\ \E position \in UserPositions, materialId \in {"quantanium", "gold"} :
            CalledWithStore("findOptimalRefinery",
                            [userPosition |-> position, materialId |-> materialId],
                            findOptimalRefinery(position, materialId, Nothing, "",
                                                Nothing, Nothing),
                            refineryResultsStore(store))

NextFrame ==
    \/ FrameAnalyzePosition
    \/ FrameGetRecommendedBands
    \/ FrameAnalyzeRoute
    \/ FrameCalculateExitWidths
    \/ FrameGetDestinationsByBandWidth
    \/ FrameFindBestRefineryByYield
    \/ FrameFindClosestRefineryByPosition
    \/ FrameFindOptimalRefinery
    \/ Return

SpecFrame == Init /\ [][NextFrame]_vars

\* C25: no core operation changes the contents or the element order of
\* BANDS, ROUTES, a route's bandExits, REFINERIES or the list its caller
\* passed in; so every call returns what the same call returns on the tables
\* as loaded.
C25_TablesUnchanged ==
    /\ store.BANDS = BANDS
    /\ store.ROUTES = ROUTES
    /\ store.REFINERIES = REFINERIES
    /\ Returned("calculateExitWidths") =>
        /\ store.bandExits = args.bandExits
        /\ ret = calculateExitWidths(args.bandExits)
    /\ Returned("getRecommendedBands") =>
        ret = getRecommendedBands(BANDS, args.prioritizeDensity, args.avoidEdges)

\* C25 witness: calculateExitWidths returned the exits in bandId order for a
\* list passed out of order, and the caller's list is still out of order.
C25_Witness ==
    /\ Returned("calculateExitWidths")
    /\ Len(args.bandExits) >= 2
    /\ args.bandExits[1].bandId > args.bandExits[2].bandId
    /\ ret[1].bandId < ret[2].bandId
    /\ store.bandExits = args.bandExits

\* C26: for every route of ROUTES, calculateExitWidths gives each of the ten
\* bands an exitWidth above 0, and every exitWidth and exitDistance returned
\* by getDestinationsByBandWidth is above 0.
C26_ExitWidthsPositive ==
    /\ Returned("calculateExitWidths") =>
        /\ Len(ret) = Len(args.bandExits)
        /\ \A i \in 1..Len(ret) : ret[i].exitWidth > 0
    /\ Returned("getDestinationsByBandWidth") =>
        \A i \in 1..Len(ret) : ret[i].exitWidth > 0 /\ ret[i].exitDistance > 0

\* C26 witness: the widths of the ten bands of a route were returned, the
\* width of an inner band being the smaller of its two gaps.
C26_Witness ==
    /\ Returned("calculateExitWidths")
    /\ Len(ret) = 10
    /\ ret[5].exitWidth > 0
    /\ ret[5].exitWidth = Min2(ret[5].gapToPreviousBand[1], ret[5].gapToNextBand[1])
    /\ ret[5].gapToPreviousBand[1] # ret[5].gapToNextBand[1]

\* C27: every band exit of every route has as distanceFromStanton the
\* peakDensityDistance of the band of BANDS with the same id, so
\* getExitDistances reports the band's peak as stantonMarkerDistance.
C27_ExitAtBandPeak ==
    /\ \A k \in 1..Len(store.ROUTES) :
           \A i \in 1..Len(store.ROUTES[k].bandExits) :
               LET bandExit == store.ROUTES[k].bandExits[i]
                   band == FindBandById(bandExit.bandId)
               IN  /\ band # Nothing
                   /\ bandExit.distanceFromStanton = band[1].peakDensityDistance
    /\ (Returned("getExitDistances") /\ ret # Nothing) =>
        ret[1].stantonMarkerDistance
            = FindBandById(args.bandId)[1].peakDensityDistance

(***************************************************************************)
(* Stored preferences (utils/storage.ts).  localStorage holds at most one  *)
(* item under the preferences key; the item is the JSON text of the        *)
(* preferences, kept as the list of its members in key order.              *)
(***************************************************************************)
RECENT_LIMIT == 5

DEFAULT_PREFERENCES == [preferredNavigationMethod |-> "stanton", showAllBands |-> TRUE, compactMode |-> FALSE, distanceWeight |-> 3, recentRoutes |-> <<>>]

PREFERENCE_KEYS == <<"preferredNavigationMethod", "showAllBands", "compactMode", "distanceWeight", "recentRoutes">>

\* JSON.stringify of a preferences object: one member per key
JSONStringify(value) ==
    [i \in 1..Len(PREFERENCE_KEYS) |->
        [key |-> PREFERENCE_KEYS[i], value |-> value[PREFERENCE_KEYS[i]]]] \o <<>>

\* JSON.parse: the object with the members of the text
JSONParse(item) ==
    [k \in {item[i].key : i \in 1..Len(item)} |->
        item[CHOOSE i \in 1..Len(item) : item[i].key = k].value]

getItem(storage, defaultValue) ==
    IF storage = Nothing THEN defaultValue ELSE JSONParse(storage[1])

setItem(value) == Some(JSONStringify(value))

loadPreferences(storage) == getItem(storage, DEFAULT_PREFERENCES)

savePreferences(preferences) == setItem(preferences)

\* { ...current, ...updates } for updates = { recentRoutes }
updatePreferences(storage, recentRoutes) ==
    savePreferences([loadPreferences(storage) EXCEPT !.recentRoutes = recentRoutes])

\* Array.prototype.slice(0, n)
SliceFromStart(s, n) == SubSeq(s, 1, Min2(n, Len(s)))

IsRoute(r, startId, destinationId) ==
    r.startId = startId /\ r.destinationId = destinationId

\* Mutant of addRecentRoute: the earlier entry of the pair is not removed.
addRecentRouteKeepsDuplicate(storage, startId, destinationId, now) ==
    LET prefs == loadPreferences(storage)
        filtered == prefs.recentRoutes
        updated == SliceFromStart(
                       <<[startId |-> startId, destinationId |-> destinationId,
                          timestamp |-> now]>> \o filtered, RECENT_LIMIT)
    IN  updatePreferences(storage, updated)

\* The storage after addRecentRoute; now is the value of Date.now()
addRecentRoute(storage, startId, destinationId, now) ==
    LET prefs == loadPreferences(storage)
        filtered == FilterSeq(prefs.recentRoutes,
                        {r \in SeqRange(prefs.recentRoutes) :
                            ~IsRoute(r, startId, destinationId)})
        updated == SliceFromStart(
                       <<[startId |-> startId, destinationId |-> destinationId,
                          timestamp |-> now]>> \o filtered, RECENT_LIMIT)
    IN  updatePreferences(storage, updated)

getRecentRoutes(storage) == loadPreferences(storage).recentRoutes

\* Routes a caller records: the first NumRecentArgs routes of ROUTES
NumRecentArgs == 6

RecentRouteArgs == {ROUTES[k] : k \in 1..Min2(NumRecentArgs, Len(ROUTES))}

\* Date.now() values; the clock does not run backwards
MaxTimestamp == 2

LatestTimestamp(storage) ==
    LET recent == getRecentRoutes(storage)
    IN  IF recent = <<>> THEN 1 ELSE recent[1].timestamp

CallAddRecentRoute ==
    /\ pc = "idle"
    /\ \E route \in RecentRouteArgs :
       \E now \in LatestTimestamp(localStorage)..MaxTimestamp :
            /\ localStorage' = addRecentRoute(localStorage, route.startId,
                                              route.destinationId, now)
            /\ Handled("addRecentRoute",
                       [startId |-> route.startId,
                        destinationId |-> route.destinationId,
                        stored |-> getRecentRoutes(localStorage)],
                       Nothing)
    /\ UNCHANGED <<sync, planner>>

NextStorage ==
    \/ CallAddRecentRoute
    \/ Return

SpecStorage == Init /\ [][NextStorage]_vars

RoutePair(r) == <<r.startId, r.destinationId>>

RoutePairs(routes) == [i \in 1..Len(routes) |-> RoutePair(routes[i])] \o <<>>

\* C30: after any sequence of addRecentRoute calls the stored recentRoutes
\* has at most 5 entries, no two of them with the same (startId,
\* destinationId), and after a call the route just added is first and the
\* entries behind it are the other previous entries in their previous order.
C30_RecentRoutes ==
    LET recent == getRecentRoutes(localStorage)
    IN  /\ Len(recent) <= 5
        /\ \A i, j \in 1..Len(recent) :
               RoutePair(recent[i]) = RoutePair(recent[j]) => i = j
        /\ Returned("addRecentRoute") =>
           LET others == FilterSeq(args.stored,
                             {r \in SeqRange(args.stored) :
                                 RoutePair(r) # <<args.startId, args.destinationId>>})
           IN  /\ recent # <<>>
               /\ RoutePair(recent[1]) = <<args.startId, args.destinationId>>
               /\ Tail(recent) = SubSeq(others, 1, Len(recent) - 1)
               /\ Len(recent) = Min2(5, Len(others) + 1)

\* C30 witness: a route already stored behind others was added again to a
\* full list, and it moved to the front.
C30_Witness ==
    /\ Returned("addRecentRoute")
    /\ Len(args.stored) = 5
    /\ \E i \in 2..5 : RoutePair(args.stored[i]) = <<args.startId, args.destinationId>>
    /\ Len(getRecentRoutes(localStorage)) = 5
    /\ RoutePair(getRecentRoutes(localStorage)[1]) = <<args.startId, args.destinationId>>

(***************************************************************************)
(* Route planner (components/RoutePlanner.tsx, App.tsx).  startId,         *)
(* destinationId and selectedBandId are App state, the rest is state of    *)
(* the component; a handler sees the values of the latest render.          *)
(***************************************************************************)
getAvailableStartLocations == {ROUTES[k].startId : k \in 1..Len(ROUTES)}

getAvailableDestinations(startId) ==
    {r.destinationId : r \in SeqRange(getRoutesFromLocation(startId))}

\* App.handleSwapRoute
handleSwapRoute(p) ==
    [p EXCEPT !.startId = p.destinationId, !.destinationId = p.startId]

canSwap(p) ==
    IF p.startId = "" \/ p.destinationId = "" THEN FALSE
    ELSE IF p.destinationId \notin getAvailableStartLocations THEN FALSE
    ELSE p.startId \in getAvailableDestinations(p.destinationId)

handleSwap(p) == IF ~canSwap(p) THEN p ELSE handleSwapRoute(p)

\* Mutant of handleStartChange: the destination is kept.
handleStartChangeKeepsDestination(p, newStartId) ==
    [p EXCEPT !.startId = newStartId,
              !.selectedDestBandId = Nothing,
              !.destTableCollapsed = FALSE,
              !.bandModeCollapsed = FALSE,
              !.bandSelectorCollapsed = FALSE]

handleStartChange(p, newStartId) ==
    [p EXCEPT !.startId = newStartId,
              !.selectedDestBandId = Nothing,
              !.destTableCollapsed = FALSE,
              !.bandModeCollapsed = FALSE,
              !.bandSelectorCollapsed = FALSE,
              !.destinationId =
                  IF newStartId # ""
                  THEN IF p.destinationId \notin getAvailableDestinations(newStartId)
                       THEN "" ELSE p.destinationId
                  ELSE ""]

handleDestinationChange(p, newDestId) ==
    [p EXCEPT !.destinationId = newDestId,
              !.selectedDestBandId = Nothing,
              !.destTableCollapsed = FALSE]

handleDestBandClick(p, bandId) ==
    IF p.selectedDestBandId = Some(bandId) /\ p.destTableCollapsed
    THEN [p EXCEPT !.destTableCollapsed = FALSE]
    ELSE [p EXCEPT !.selectedDestBandId = Some(bandId),
                   !.selectedBandId = Some(bandId),
                   !.destTableCollapsed = TRUE]

handlePlannerModeChange(p, newMode) ==
    IF newMode = "destination"
    THEN [p EXCEPT !.mode = newMode,
                   !.selectedDestBandId = p.selectedBandId,
                   !.destTableCollapsed =
                       p.startId # "" /\ p.destinationId # ""
                       /\ p.selectedBandId # Nothing]
    ELSE [p EXCEPT !.mode = newMode,
                   !.bandModeCollapsed =
                       p.startId # "" /\ p.selectedBandId # Nothing
                       /\ p.destinationId # "",
                   !.bandSelectorCollapsed =
                       p.startId # "" /\ p.selectedBandId # Nothing]

handleBandSelect(p, bandId) ==
    IF p.selectedBandId = Some(bandId) /\ p.bandSelectorCollapsed
    THEN [p EXCEPT !.bandSelectorCollapsed = FALSE]
    ELSE [p EXCEPT !.selectedBandId = Some(bandId),
                   !.destinationId = "",
                   !.bandSelectorCollapsed = TRUE]

handleBandDestinationSelect(p, destId) ==
    IF p.destinationId = destId /\ p.bandModeCollapsed
    THEN [p EXCEPT !.bandModeCollapsed = FALSE]
    ELSE [p EXCEPT !.destinationId = destId, !.bandModeCollapsed = TRUE]

\* What the component renders
SelectorsShown(p) ==
    ~((p.mode = "destination" /\ p.destTableCollapsed)
      \/ (p.mode = "band" /\ p.bandModeCollapsed))

routeData(p) ==
    IF p.startId = "" \/ p.destinationId = "" THEN Nothing
    ELSE getRouteWithBandInfo(p.startId, p.destinationId)

destinationsByWidth(p) ==
    IF p.startId = "" \/ p.selectedBandId = Nothing THEN <<>>
    ELSE getDestinationsByBandWidth(p.startId, p.selectedBandId[1])

\* The band buttons the planner offers: bands 1..NumPlannerBands
NumPlannerBands == 2

PlannerBands == {BANDS[i].id : i \in 1..Min2(NumPlannerBands, Len(BANDS))}

PlannerHandled(name, a, p) ==
    /\ planner' = p
    /\ Handled(name, a, Nothing)
    /\ UNCHANGED <<sync, localStorage>>

StartChange ==
    /\ pc = "idle"
    /\ SelectorsShown(planner)
    /\ \E newStartId \in {""} \cup getAvailableStartLocations :
            PlannerHandled("handleStartChange", [newStartId |-> newStartId],
                           handleStartChange(planner, newStartId))

DestinationChange ==
    /\ pc = "idle"
    /\ SelectorsShown(planner)
    /\ planner.mode = "destination"
    /\ planner.startId # ""
    /\ \E newDestId \in {""} \cup getAvailableDestinations(planner.startId) :
            PlannerHandled("handleDestinationChange", [newDestId |-> newDestId],
                           handleDestinationChange(planner, newDestId))

DestBandClick ==
    /\ pc = "idle"
    /\ planner.mode = "destination"
    /\ IsSome(routeData(planner))
    /\ \E bandId \in PlannerBands :
            PlannerHandled("handleDestBandClick", [bandId |-> bandId],
                           handleDestBandClick(planner, bandId))

ModeChange ==
    /\ pc = "idle"
    /\ \E newMode \in {"band", "destination"} :
            PlannerHandled("handleModeChange", [newMode |-> newMode],
                           handlePlannerModeChange(planner, newMode))

BandSelect ==
    /\ pc = "idle"
    /\ planner.mode = "band"
    /\ planner.startId # ""
    /\ \E bandId \in PlannerBands :
            /\ planner.bandSelectorCollapsed => planner.selectedBandId = Some(bandId)
            /\ PlannerHandled("handleBandSelect", [bandId |-> bandId],
                              handleBandSelect(planner, bandId))

BandDestinationSelect ==
    /\ pc = "idle"
    /\ planner.mode = "band"
    /\ planner.startId # ""
    /\ ~planner.bandModeCollapsed
    /\ \E i \in 1..Len(destinationsByWidth(planner)) :
            LET destId == destinationsByWidth(planner)[i].destinationId
            IN  PlannerHandled("handleBandDestinationSelect", [destId |-> destId],
                               handleBandDestinationSelect(planner, destId))

\* handleSwap guards itself; it does not rely on the button being hidden
Swap ==
    /\ pc = "idle"
    /\ PlannerHandled("handleSwap",
                      [startId |-> planner.startId,
                       destinationId |-> planner.destinationId],
                      handleSwap(planner))

NextPlanner ==
    \/ StartChange
    \/ DestinationChange
    \/ DestBandClick
    \/ ModeChange
    \/ BandSelect
    \/ BandDestinationSelect
    \/ Swap
    \/ Return

SpecPlanner == Init /\ [][NextPlanner]_vars

\* C29: after any sequence of planner events the selected destination is
\* empty or one that has a route from the selected start in ROUTES, and
\* handleSwap exchanges start and destination only when the reverse route
\* exists.
C29_DestinationHasRoute ==
    /\ planner.destinationId = ""
       \/ getRoute(planner.startId, planner.destinationId) # Nothing
    /\ Returned("handleSwap") =>
       \/ /\ planner.startId = args.startId
          /\ planner.destinationId = args.destinationId
       \/ /\ planner.startId = args.destinationId
          /\ planner.destinationId = args.startId
          /\ getRoute(args.destinationId, args.startId) # Nothing

\* C29 witness: a swap exchanged a start and a destination that was chosen
\* from the list of a band.
C29_Witness ==
    /\ Returned("handleSwap")
    /\ args.startId # ""
    /\ args.destinationId # ""
    /\ planner.startId = args.destinationId
    /\ planner.destinationId = args.startId
    /\ planner.mode = "band"
    /\ planner.bandModeCollapsed

(***************************************************************************)
(* Cross-app session sync (lib/supabase.ts).  A string is the sequence of  *)
(* its characters.  sync.session is the auth client's local session,       *)
(* sync.cookie the value of the pfg-refresh-token cookie as the browser    *)
(* holds it, sync.events the auth events raised and not yet delivered to   *)
(* the listener.  The auth client itself is a library outside the          *)
(* repository: its operations change the session and raise the events.     *)
(***************************************************************************)
\* The characters encodeURIComponent escapes, among those of AUTH_TOKENS
URI_ESCAPES == (";" :> <<"%", "3", "B">>) @@ (" " :> <<"%", "2", "0">>) @@ ("%" :> <<"%", "2", "5">>) @@ ("=" :> <<"%", "3", "D">>)

RECURSIVE encodeURIComponent(_)
encodeURIComponent(str) ==
    IF str = <<>> THEN <<>>
    ELSE (IF Head(str) \in DOMAIN URI_ESCAPES
          THEN URI_ESCAPES[Head(str)] ELSE <<Head(str)>>)
         \o encodeURIComponent(Tail(str))

\* A malformed escape makes decodeURIComponent throw a URIError
URIError == <<"URIError">>

RECURSIVE decodeURIComponent(_)
decodeURIComponent(str) ==
    IF str = <<>> THEN <<>>
    ELSE IF Head(str) # "%"
    THEN LET rest == decodeURIComponent(Tail(str))
         IN  IF rest = URIError THEN URIError ELSE <<Head(str)>> \o rest
    ELSE LET escaped == {c \in DOMAIN URI_ESCAPES :
                            Len(str) >= 3 /\ URI_ESCAPES[c] = SubSeq(str, 1, 3)}
         IN  IF escaped = {} THEN URIError
             ELSE LET rest == decodeURIComponent(SubSeq(str, 4, Len(str)))
                  IN  IF rest = URIError THEN URIError
                      ELSE <<CHOOSE c \in escaped : TRUE>> \o rest

\* The [^;]+ of the cookie pattern, and the value the browser keeps of an
\* assignment to document.cookie: the characters before the first ";"
RECURSIVE UpToSemicolon(_)
UpToSemicolon(str) ==
    IF str = <<>> \/ Head(str) = ";" THEN <<>>
    ELSE <<Head(str)>> \o UpToSemicolon(Tail(str))

\* JavaScript truthiness of a string | null
Truthy(token) == token # Nothing /\ token[1] # <<>>

getSharedRefreshToken(cookie) ==
    IF cookie = Nothing \/ UpToSemicolon(cookie[1]) = <<>> THEN Nothing
    ELSE Some(decodeURIComponent(UpToSemicolon(cookie[1])))

\* Mutant of setSharedRefreshToken: the token is written without
\* encodeURIComponent.
setSharedRefreshTokenRaw(token) ==
    IF Truthy(token) THEN Some(UpToSemicolon(token[1])) ELSE Nothing

\* The cookie after setSharedRefreshToken(token); max-age=0 removes it
setSharedRefreshToken(token) ==
    IF Truthy(token) THEN Some(UpToSemicolon(encodeURIComponent(token[1])))
    ELSE Nothing

\* Refresh tokens the auth client may issue; the empty string is falsy
AUTH_TOKENS == << <<"a", "b">>, <<"c", ";", "d">>, <<>>, <<"%", "3", "B">>, <<"e", " ", "=">> >>

NumTokens == 3

Tokens == {AUTH_TOKENS[i] : i \in 1..Min2(NumTokens, Len(AUTH_TOKENS))}

Session(token) == [refresh_token |-> token]

MaxPendingEvents == 2

\* The auth client raises an event: it reaches the listener once registered
Emit(s, event, session) ==
    IF s.listening
    THEN [s EXCEPT !.events = Append(s.events, [event |-> event, session |-> session])]
    ELSE s

\* supabase.auth.onAuthStateChange(...) and addEventListener at the end of
\* initSessionSync
Registered(s) ==
    [s EXCEPT !.phase = "ready", !.listening = TRUE, !.watching = TRUE,
              !.restoreToken = Nothing]

\* The callback given to onAuthStateChange: the cookie after the event
onAuthStateChange(cookie, event, session) ==
    IF event = "SIGNED_IN" \/ event = "TOKEN_REFRESHED"
    THEN IF session # Nothing /\ session[1].refresh_token # <<>>
         THEN setSharedRefreshToken(Some(session[1].refresh_token))
         ELSE cookie
    ELSE IF event = "SIGNED_OUT" THEN setSharedRefreshToken(Nothing)
    ELSE cookie

\* supabase.auth.refreshSession: a new session, or an error, which may end
\* the local session with a SIGNED_OUT event
RefreshOutcomes ==
    {[ok |-> TRUE, token |-> t, signedOut |-> FALSE] : t \in Tokens \ {<<>>}}
    \cup {[ok |-> FALSE, token |-> <<>>, signedOut |-> b] : b \in BOOLEAN}

refreshSession(s, outcome) ==
    IF outcome.ok
    THEN Emit([s EXCEPT !.session = Some(Session(outcome.token))],
              "TOKEN_REFRESHED", Some(Session(outcome.token)))
    ELSE IF outcome.signedOut
    THEN Emit([s EXCEPT !.session = Nothing], "SIGNED_OUT", Nothing)
    ELSE s

signOut(s) == Emit([s EXCEPT !.session = Nothing], "SIGNED_OUT", Nothing)

\* A step of the sync that is not the return of a handler
SyncStep(s) ==
    /\ sync' = s
    /\ UNCHANGED <<callVars, finderVars, store, planner, localStorage>>

\* initSessionSync up to its first await
InitSessionSync ==
    /\ pc = "idle"
    /\ sync.phase = "start"
    /\ \E isSupabaseConfigured \in BOOLEAN :
            SyncStep([sync EXCEPT !.phase = IF isSupabaseConfigured
                                            THEN "getSession" ELSE "off"])

\* getSession has answered: restore from the cookie or register at once
InitGotSession ==
    /\ pc = "idle"
    /\ sync.phase = "getSession"
    /\ LET sharedRefreshToken == getSharedRefreshToken(sync.cookie)
       IN  IF sync.session = Nothing /\ Truthy(sharedRefreshToken)
           THEN SyncStep([sync EXCEPT !.phase = "restoring",
                                      !.restoreToken = sharedRefreshToken])
           ELSE SyncStep(Registered(sync))

\* refreshSession has answered during initSessionSync
InitRestored ==
    /\ pc = "idle"
    /\ sync.phase = "restoring"
    /\ \E outcome \in RefreshOutcomes :
            LET restored == refreshSession(sync, outcome)
            IN  IF ~outcome.ok \/ restored.session = Nothing
                THEN SyncStep(Registered([restored EXCEPT
                                  !.cookie = setSharedRefreshToken(Nothing)]))
                ELSE SyncStep(Registered(restored))

\* The user signs in in this app
SignIn ==
    /\ pc = "idle"
    /\ sync.session = Nothing
    /\ Len(sync.events) < MaxPendingEvents
    /\ \E t \in Tokens :
            SyncStep(Emit([sync EXCEPT !.session = Some(Session(t))],
                          "SIGNED_IN", Some(Session(t))))

\* The auth client renews the session
TokenRefresh ==
    /\ pc = "idle"
    /\ sync.session # Nothing
    /\ Len(sync.events) < MaxPendingEvents
    /\ \E t \in Tokens :
            SyncStep(Emit([sync EXCEPT !.session = Some(Session(t))],
                          "TOKEN_REFRESHED", Some(Session(t))))

\* The user signs out in this app
UserSignOut ==
    /\ pc = "idle"
    /\ sync.session # Nothing
    /\ Len(sync.events) < MaxPendingEvents
    /\ SyncStep(signOut(sync))

\* Another app of the domain writes or clears the shared cookie
OtherApp ==
    /\ pc = "idle"
    /\ \E token \in {Nothing} \cup {Some(t) : t \in Tokens} :
            /\ setSharedRefreshToken(token) # sync.cookie
            /\ SyncStep([sync EXCEPT !.cookie = setSharedRefreshToken(token)])

\* The listener receives the next event
HandleAuthEvent ==
    /\ pc = "idle"
    /\ sync.events # <<>>
    /\ LET e == Head(sync.events)
           cookie == onAuthStateChange(sync.cookie, e.event, e.session)
       IN  /\ sync' = [sync EXCEPT !.events = Tail(sync.events), !.cookie = cookie]
           /\ Handled("onAuthStateChange", [event |-> e.event, session |-> e.session],
                      getSharedRefreshToken(cookie))
    /\ UNCHANGED <<planner, localStorage>>

\* visibilitychange with the tab visible: handleVisibilityChange up to its
\* first await (with the tab hidden the handler does nothing)
VisibilityChange ==
    /\ pc = "idle"
    /\ sync.watching
    /\ sync.visibility = "idle"
    /\ SyncStep([sync EXCEPT !.visibility = "getSession"])

\* getSession has answered in handleVisibilityChange
VisibilityResolved ==
    /\ pc = "idle"
    /\ sync.visibility = "getSession"
    /\ Len(sync.events) < MaxPendingEvents
    /\ LET session == sync.session
           sharedToken == getSharedRefreshToken(sync.cookie)
           s == [sync EXCEPT !.visibility = "idle"]
           a == [session |-> session, sharedToken |-> sharedToken]
       IN  IF session # Nothing /\ ~Truthy(sharedToken)
           THEN /\ sync' = signOut(s)
                /\ Handled("visibilitychange", a,
                           [call |-> "signOut", refresh_token |-> <<>>, ok |-> TRUE])
           ELSE IF session = Nothing /\ Truthy(sharedToken)
           THEN \E outcome \in RefreshOutcomes :
                    /\ sync' = refreshSession(s, outcome)
                    /\ Handled("visibilitychange", a,
                               [call |-> "refreshSession",
                                refresh_token |-> sharedToken[1],
                                ok |-> outcome.ok])
           ELSE /\ sync' = s
                /\ Handled("visibilitychange", a,
                           [call |-> "none", refresh_token |-> <<>>, ok |-> TRUE])
    /\ UNCHANGED <<planner, localStorage>>

NextSync ==
    \/ InitSessionSync
    \/ InitGotSession
    \/ InitRestored
    \/ SignIn
    \/ TokenRefresh
    \/ UserSignOut
    \/ OtherApp
    \/ HandleAuthEvent
    \/ VisibilityChange
    \/ VisibilityResolved
    \/ Return

SpecSync == Init /\ [][NextSync]_vars

\* C28: once initSessionSync has registered its listeners, after a
\* SIGNED_IN or TOKEN_REFRESHED event that carries a refresh token the
\* shared cookie reads back as that token, after a SIGNED_OUT event no
\* cookie is read, and when the tab becomes visible the app signs out if it
\* has a session and no cookie, and refreshes the session with the cookie's
\* token if it has a cookie and no session.
C28_CookieFollowsAuthEvents ==
    /\ Returned("onAuthStateChange") =>
        /\ sync.phase = "ready"
        /\ (/\ args.event \in {"SIGNED_IN", "TOKEN_REFRESHED"}
            /\ args.session # Nothing
            /\ args.session[1].refresh_token # <<>>)
           => getSharedRefreshToken(sync.cookie) = Some(args.session[1].refresh_token)
        /\ args.event = "SIGNED_OUT" => getSharedRefreshToken(sync.cookie) = Nothing
    /\ Returned("visibilitychange") =>
        /\ sync.phase = "ready"
        /\ (args.session # Nothing /\ args.sharedToken = Nothing)
           => (ret.call = "signOut" /\ sync.session = Nothing)
        /\ (args.session = Nothing /\ args.sharedToken # Nothing)
           => /\ ret.call = "refreshSession"
              /\ ret.refresh_token = args.sharedToken[1]
              /\ Some(ret.refresh_token) = getSharedRefreshToken(sync.cookie)
              /\ ret.ok => sync.session # Nothing

\* C28 witness: a TOKEN_REFRESHED event arrived after the SIGNED_OUT event
\* of a later sign-out was already raised, and the cookie took its token,
\* which needs escaping.
C28_Witness ==
    /\ Returned("onAuthStateChange")
    /\ args.event = "TOKEN_REFRESHED"
    /\ args.session = Some(Session(<<"c", ";", "d">>))
    /\ sync.cookie = Some(<<"c", "%", "3", "B", "d">>)
    /\ sync.session = Nothing
    /\ sync.events # <<>>
    /\ Head(sync.events).event = "SIGNED_OUT"

====
